---- MODULE Spec2Model ----
(***************************************************************************)
(* A model of the SuperMan runtime substrate: the AutoScheduler with its   *)
(* four priority queues, dependency check, agent-load table and dispatch   *)
(* loop (scheduler package), and the agent lifecycle with its mailbox      *)
(* (agents and mailbox packages).                                          *)
(*                                                                         *)
(* Two specifications share the variables:                                 *)
(*   SchedSpec  - AddTask, the dispatch loop step by step, and the agents  *)
(*                as the scheduler sees them (inbox, ProcessTask,          *)
(*                OnTaskComplete);                                         *)
(*   AgentSpec  - one agent: senders pushing into its inbox, Start/Stop    *)
(*                callers, the message loop and the task-generation loop,  *)
(*                with processingMu, stopCh and the wait group.            *)
(* Each specification freezes the other half of the state.                 *)
(***************************************************************************)
EXTENDS Integers, Sequences, FiniteSets, TLC

(***************************************************************************)
(* Bounds of the model.                                                    *)
(***************************************************************************)
NumTasks == 3
SchedInboxCap == 1
NumMsgs == 4
InboxCap == 2
MaxGsTasks == 2
MaxGsLen == 1
MaxVersion == 4
BusInboxCap == 2
MaxBusMsgs == 5
MaxClock == 95
MaxStarts == 2

(***************************************************************************)
(* Program constants.                                                      *)
(***************************************************************************)
PriorityCritical == "Critical"
PriorityHigh == "High"
PriorityMedium == "Medium"
PriorityLow == "Low"

TaskStatusPending == "pending"
TaskStatusAssigned == "assigned"
TaskStatusProcessing == "processing"
TaskStatusCompleted == "completed"
TaskStatusFailed == "failed"

\* A scan order that starts at the lowest priority.
prioritiesLowFirst == <<PriorityLow, PriorityMedium, PriorityHigh, PriorityCritical>>

\* getNextReady's scan order.
priorities == <<PriorityCritical, PriorityHigh, PriorityMedium, PriorityLow>>

QueueKeys == {PriorityCritical, PriorityHigh, PriorityMedium, PriorityLow}

\* The roster main registers, with max_tasks and hierarchy from the config.
AgentNames == {"ceo", "cto"}
ConfigMaxTasks == [a \in AgentNames |-> IF a = "ceo" THEN 1 ELSE 2]
ConfigHierarchy == [a \in AgentNames |-> IF a = "ceo" THEN 1 ELSE 2]

\* The task objects, numbered as they are created.
TaskIds == 1..NumTasks

\* The values of Task.ID: ds.GenerateTaskID formats the time to the second, so
\* an ID stands for the second a task was created in.
Ids == 1..NumTasks

MsgIds == 1..NumMsgs
Senders == {"orchestrator", "peer"}
\* The orchestrator's RunTask sends task-create messages, a peer agent requests.
SenderKind == [s \in Senders |-> IF s = "orchestrator" THEN "task" ELSE "request"]
Callers == {"c1", "c2"}
\* The goroutines that work on GlobalState: the scheduler loop, the timer
\* loop (through AutoScheduler.AddTask) and two agents.
Threads == {"scheduler", "timer", "ceo", "cto"}
\* The two components with a Start and a Stop around one loop goroutine.
Components == {"scheduler", "timer"}
LoopIds == 1..MaxStarts

\* The slot of a task id no task was created with yet.
NoTask == [ID |-> 0, Priority |-> "", AssignedTo |-> "", Status |-> "none",
           Dependencies |-> {}, EnqueuedFor |-> ""]

VARIABLES
    \* ---- scheduler ----
    taskQueues,     \* AutoScheduler.taskQueues: queue key -> sequence of task ids
    tasks,          \* the ds.Task objects, in the order of their creation; the field
                    \* EnqueuedFor is history: AssignedTo as AddTask got it
    gsTasks,        \* GlobalState.Tasks: task ID -> the task object (0: no entry)
    nextTaskId,     \* the number the next task object gets
    agentLoads,     \* AutoScheduler.agentLoads: name -> AgentLoad
    dpc,            \* the dispatch goroutine's position
    dTask,          \* dispatchTasks' local `task`
    dAgent,         \* dispatchTasks' local `agent`
    dFrom,          \* getNextReady's local `priority`: the queue dTask came from
    inboxTasks,     \* per agent: the task-create messages in its inbox
    aCur,           \* per agent: the task its ProcessTask is working on (0: none)
    aPhase,         \* per agent: ProcessTask's position
    enqOrder,       \* history: per queue key, the queued task ids in the order of
                    \* their latest enqueue (AddTask or requeue)
    passReady,      \* history: the queued tasks with dependencies that were ready
                    \* and had an agent when the running dispatch pass began
    \* ---- one agent and its mailbox ----
    inbox,          \* Mailbox.Inbox: the buffered channel's content
    msgKind,        \* per message id: "task" (task-create body), "request", or "none"
    nextMsgId,      \* the next fresh message id
    sPc,            \* per sender: idle, or waiting inside PushInbox's select
    sMsg,           \* per sender: the message its PushInbox holds
    pushResult,     \* per message: what PushInbox returned ("ok", "full"), "none" before
    running,        \* BaseAgentImpl.running
    stopClosed,     \* whether the channel a.stopCh is closed
    panicked,       \* a close of a closed channel happened
    mu,             \* processingMu: "free" or the caller of Stop that holds it
    wg,             \* BaseAgentImpl.wg: the wait group's counter
    cPc,            \* per caller: idle, inside Start, inside Stop, Stop's wg.Wait
    cRet,           \* per caller: what its last Start or Stop returned
    cPath,          \* history: per caller, the branch its last Start or Stop took
    nStarts,        \* the number of calls of Start so far
    msgLoop,        \* per Start: its messageProcessingLoop goroutine (pc, msg)
    genLoop,        \* per Start: its taskGenerationLoop goroutine (pc)
    accepted,       \* history: message ids in the order the inbox accepted them
    delivered,      \* history: message ids in the order processMessageAsync got them
    handled,        \* history: per message, how often ProcessTask/ProcessMessage ran it
    refused,        \* history: messages ProcessTask/ProcessMessage refused (not running)
    \* ---- AutoScheduler's and TimerEngine's Start and Stop ----
    lcStopClosed,   \* per component: whether its stopCh is closed
    lcWg,           \* per component: its wait group's counter
    lcLoop,         \* per component and Start: its loop goroutine's position
    lcStarts,       \* per component: the number of calls of Start so far
    lcPc,           \* per caller: idle, or inside Stop's wg.Wait()
    lcComp,         \* per caller: the component its Stop is in
    lcRet,          \* per caller: how its last Stop ended ("returned"), "none" before
    lcPanicked,     \* a goroutine panicked: the process is gone
    \* ---- components on their own ----
    rt,             \* a Task on its way through RunTask and processMessageAsync
    gs,             \* a GlobalState and the last mutator called on it
    bus,            \* a MailboxBus, its mailboxes and one caller of Send
    te,             \* a TimerEngine, its clock and the tasks it gave the scheduler
    archive,        \* the agent's Mailbox.archive, written by ArchiveMessage only
    lk              \* GlobalState.mu and the operations running on GlobalState

schedVars == <<taskQueues, tasks, gsTasks, nextTaskId, agentLoads, dpc, dTask, dAgent, dFrom,
               inboxTasks, aCur, aPhase, enqOrder, passReady>>

agentVars == <<inbox, msgKind, nextMsgId, sPc, sMsg, pushResult, running, stopClosed,
               panicked, mu, wg, cPc, cRet, cPath, nStarts, msgLoop, genLoop,
               accepted, delivered, handled, refused>>

lifeVars == <<lcStopClosed, lcWg, lcLoop, lcStarts, lcPc, lcComp, lcRet, lcPanicked>>

compVars == <<rt, gs, bus, te, archive, lk>>

vars == <<schedVars, agentVars, lifeVars, compVars>>

(***************************************************************************)
(* Sequence helpers.                                                       *)
(***************************************************************************)
SeqToSet(s) == {s[i] : i \in 1..Len(s)}

\* A removal that leaves the element where it is.
KeepAt(s, i) == s

RemoveAt(s, i) == [j \in 1..(Len(s) - 1) |-> IF j < i THEN s[j] ELSE s[j + 1]]

RemoveElem(s, x) == SelectSeq(s, LAMBDA y : y # x)

IndexOf(s, x) == CHOOSE i \in 1..Len(s) : s[i] = x

(***************************************************************************)
(* TaskQueue.                                                              *)
(***************************************************************************)
\* A variant that puts the task at the head of the queue.
EnqueueAtHead(q, t) == <<t>> \o q

\* TaskQueue.Enqueue: q.queue = append(q.queue, task).
Enqueue(q, t) == Append(q, t)

\* areDependenciesMet without the nil check: an absent dependency counts as met.
AreDependenciesMetIgnoringMissing(t) ==
    \A d \in tasks[t].Dependencies :
        gsTasks[d] # 0 => tasks[gsTasks[d]].Status = TaskStatusCompleted

\* AutoScheduler.areDependenciesMet (globalState is non-nil: main passes the bus's).
AreDependenciesMet(t) ==
    \A d \in tasks[t].Dependencies :
        gsTasks[d] # 0 /\ tasks[gsTasks[d]].Status = TaskStatusCompleted

\* TaskQueue.DequeueIf: the position of the first task the predicate accepts
\* (0: none); the tasks before it stay in place.
DequeueIfIndex(q) ==
    IF \E i \in 1..Len(q) : AreDependenciesMet(q[i])
    THEN CHOOSE i \in 1..Len(q) :
            /\ AreDependenciesMet(q[i])
            /\ \A j \in 1..(i - 1) : ~AreDependenciesMet(q[j])
    ELSE 0

\* A getNextReady that gives up at the first non-empty queue without a ready
\* task instead of going on to the next queue.
GetNextReadyKeyFirstQueueOnly ==
    IF \E k \in 1..Len(priorities) : taskQueues[priorities[k]] # <<>>
    THEN LET k == CHOOSE k \in 1..Len(priorities) :
                    /\ taskQueues[priorities[k]] # <<>>
                    /\ \A j \in 1..(k - 1) : taskQueues[priorities[j]] = <<>>
         IN  IF DequeueIfIndex(taskQueues[priorities[k]]) # 0 THEN priorities[k] ELSE ""
    ELSE ""

\* AutoScheduler.getNextReady: the queue key it takes a task from ("": none).
GetNextReadyKey ==
    IF \E k \in 1..Len(priorities) : DequeueIfIndex(taskQueues[priorities[k]]) # 0
    THEN priorities[CHOOSE k \in 1..Len(priorities) :
            /\ DequeueIfIndex(taskQueues[priorities[k]]) # 0
            /\ \A j \in 1..(k - 1) : DequeueIfIndex(taskQueues[priorities[j]]) = 0]
    ELSE ""

\* AutoScheduler.requeueTask's switch on string(task.Priority).
RequeuePriority(p) ==
    CASE p = "critical" -> PriorityCritical
      [] p = "high" -> PriorityHigh
      [] p = "medium" -> PriorityMedium
      [] p = "low" -> PriorityLow
      [] OTHER -> PriorityMedium

\* findBestAgent's capacity test with <= in place of <.
HasCapacityInclusive(a) == agentLoads[a].CurrentLoad <= agentLoads[a].MaxTasks

\* findBestAgent's capacity test: agent.CurrentLoad < agent.MaxTasks.
HasCapacity(a) == agentLoads[a].CurrentLoad < agentLoads[a].MaxTasks

\* A less(i, j) that compares the load ratio only.
LessByRatioOnly(a, b) ==
    agentLoads[a].CurrentLoad * agentLoads[b].MaxTasks
        < agentLoads[b].CurrentLoad * agentLoads[a].MaxTasks

\* sort.Slice's less(i, j) in findBestAgent: lower load ratio first, then the
\* higher hierarchy number.  loadI < loadJ is compared by cross-multiplication.
Less(a, b) ==
    LET la == agentLoads[a].CurrentLoad * agentLoads[b].MaxTasks
        lb == agentLoads[b].CurrentLoad * agentLoads[a].MaxTasks
    IN  IF la # lb THEN la < lb
        ELSE agentLoads[a].Hierarchy > agentLoads[b].Hierarchy

\* AutoScheduler.findBestAgent: the agents it may return (empty: nil).  With
\* equal ratio and hierarchy the map order and the unstable sort decide.
FindBestAgent(t) ==
    IF tasks[t].AssignedTo # ""
    THEN IF tasks[t].AssignedTo \in DOMAIN agentLoads /\ HasCapacity(tasks[t].AssignedTo)
         THEN {tasks[t].AssignedTo}
         ELSE {}
    ELSE LET candidates == {a \in DOMAIN agentLoads : HasCapacity(a)}
         IN  {a \in candidates : \A b \in candidates : ~Less(b, a)}

\* OnTaskComplete's new load without the clamp at zero.
DecrementUnclamped(load) == load - 1

\* OnTaskComplete: if load.CurrentLoad > 0 { load.CurrentLoad-- }.
DecrementLoad(load) == IF load > 0 THEN load - 1 ELSE load

(***************************************************************************)
(* Scheduler: initial state (main has created the scheduler and registered *)
(* every agent with AddAgent; no task yet).                                *)
(***************************************************************************)
SchedInitWith(maxTasks, hierarchy) ==
    /\ taskQueues = [k \in QueueKeys |-> <<>>]
    /\ tasks = [t \in TaskIds |-> NoTask]
    /\ gsTasks = [i \in Ids |-> 0]
    /\ nextTaskId = 1
    /\ agentLoads = [a \in AgentNames |->
                        [MaxTasks |-> maxTasks[a], CurrentLoad |-> 0,
                         Hierarchy |-> hierarchy[a]]]
    /\ dpc = "idle"
    /\ dTask = 0
    /\ dAgent = ""
    /\ dFrom = ""
    /\ inboxTasks = [a \in AgentNames |-> <<>>]
    /\ aCur = [a \in AgentNames |-> 0]
    /\ aPhase = [a \in AgentNames |-> "idle"]
    /\ enqOrder = [k \in QueueKeys |-> <<>>]
    /\ passReady = {}

\* The scheduler with the roster of the configuration.
SchedInit == SchedInitWith(ConfigMaxTasks, ConfigHierarchy)

\* The scheduler with two agents of max_tasks 2 and the same hierarchy.
SchedInitEqualAgents ==
    SchedInitWith([a \in AgentNames |-> 2], [a \in AgentNames |-> 3])

(***************************************************************************)
(* AutoScheduler.AddTask(task, priority), as the timer engine and the      *)
(* agents' task generation call it: the queue key is string(task.Priority).*)
(* A key without a queue gets a new queue (queue == nil: NewTaskQueue()).  *)
(***************************************************************************)
AddTask(id, p, assignee, deps) ==
    /\ nextTaskId <= NumTasks
    /\ LET t == nextTaskId IN
        /\ tasks' = [tasks EXCEPT ![t] =
                        [ID |-> id, Priority |-> p, AssignedTo |-> assignee,
                         Status |-> TaskStatusPending, Dependencies |-> deps,
                         EnqueuedFor |-> assignee]]
        /\ taskQueues' = IF p \in DOMAIN taskQueues
                         THEN [taskQueues EXCEPT ![p] = Enqueue(@, t)]
                         ELSE taskQueues @@ (p :> Enqueue(<<>>, t))
        /\ gsTasks' = [gsTasks EXCEPT ![id] = t]
        /\ enqOrder' = IF p \in DOMAIN enqOrder
                       THEN [enqOrder EXCEPT ![p] = Append(@, t)]
                       ELSE enqOrder @@ (p :> <<t>>)
        /\ nextTaskId' = t + 1
    /\ UNCHANGED <<agentLoads, dpc, dTask, dAgent, dFrom, inboxTasks, aCur, aPhase>>
    /\ UNCHANGED <<passReady, agentVars, lifeVars, compVars>>

\* The queued tasks that have dependencies, all of them completed, and for
\* which findBestAgent would return an agent.
ReadyAtPassStart ==
    {t \in UNION {SeqToSet(taskQueues[k]) : k \in QueueKeys} :
        /\ tasks[t].Dependencies # {}
        /\ AreDependenciesMet(t)
        /\ FindBestAgent(t) # {}}

\* scheduleLoop: the ticker fires and dispatchTasks is entered.
Tick ==
    /\ dpc = "idle"
    /\ dpc' = "loop"
    /\ passReady' = ReadyAtPassStart
    /\ UNCHANGED <<taskQueues, tasks, gsTasks, nextTaskId, agentLoads, dTask, dAgent,
                   dFrom, inboxTasks, aCur, aPhase, enqOrder>>
    /\ UNCHANGED <<agentVars, lifeVars, compVars>>

\* dispatchTasks: task := s.getNextReady(); nil ends the pass.
DispatchSelect ==
    /\ dpc = "loop"
    /\ LET k == GetNextReadyKey IN
        IF k = ""
        THEN /\ dpc' = "idle"
             /\ dTask' = 0
             /\ dFrom' = ""
             /\ passReady' = {}
             /\ UNCHANGED <<taskQueues, enqOrder>>
        ELSE LET i == DequeueIfIndex(taskQueues[k])
                 t == taskQueues[k][i]
             IN  /\ taskQueues' = [taskQueues EXCEPT ![k] = RemoveAt(@, i)]
                 /\ enqOrder' = [enqOrder EXCEPT ![k] = RemoveElem(@, t)]
                 /\ dTask' = t
                 /\ dFrom' = k
                 /\ dpc' = "selected"
                 /\ UNCHANGED passReady
    /\ UNCHANGED <<tasks, gsTasks, nextTaskId, agentLoads, dAgent, inboxTasks, aCur,
                   aPhase>>
    /\ UNCHANGED <<agentVars, lifeVars, compVars>>

\* A requeueTask that loses the task.
RequeueTaskNever(t) ==
    /\ UNCHANGED <<taskQueues, enqOrder>>

\* requeueTask(task): back to the tail of the queue the switch names.
RequeueTask(t) ==
    /\ taskQueues' = [taskQueues EXCEPT ![RequeuePriority(tasks[t].Priority)] = Enqueue(@, t)]
    /\ enqOrder' = [enqOrder EXCEPT ![RequeuePriority(tasks[t].Priority)] = Append(@, t)]

\* dispatchTasks: agent := s.findBestAgent(task); nil requeues and breaks;
\* otherwise task.AssignedTo and task.Status are set.
DispatchFindAgent ==
    /\ dpc = "selected"
    /\ IF FindBestAgent(dTask) = {}
       THEN /\ RequeueTask(dTask)
            /\ dpc' = "idle"
            /\ dTask' = 0
            /\ dFrom' = ""
            /\ passReady' = {}
            /\ UNCHANGED <<tasks, dAgent>>
       ELSE \E a \in FindBestAgent(dTask) :
            /\ dAgent' = a
            /\ tasks' = [tasks EXCEPT ![dTask].AssignedTo = a,
                                      ![dTask].Status = TaskStatusAssigned]
            /\ dpc' = "assigned"
            /\ UNCHANGED <<taskQueues, enqOrder, dTask, dFrom, passReady>>
    /\ UNCHANGED <<gsTasks, nextTaskId, agentLoads, inboxTasks, aCur, aPhase>>
    /\ UNCHANGED <<agentVars, lifeVars, compVars>>

\* dispatchTasks: err := s.dispatcher.RunTask(task).  Orchestrator.RunTask sends
\* the task-create message through the bus; PushInbox fails when the inbox is
\* full and stays full for 5 s.  An error requeues and continues the loop.
DispatchRunTask ==
    /\ dpc = "assigned"
    /\ IF Len(inboxTasks[dAgent]) < SchedInboxCap
       THEN /\ inboxTasks' = [inboxTasks EXCEPT ![dAgent] = Append(@, dTask)]
            /\ dpc' = "ran"
            /\ UNCHANGED <<taskQueues, enqOrder, dTask, dAgent, dFrom>>
       ELSE /\ RequeueTask(dTask)
            /\ dpc' = "loop"
            /\ dTask' = 0
            /\ dAgent' = ""
            /\ dFrom' = ""
            /\ UNCHANGED inboxTasks
    /\ UNCHANGED <<tasks, gsTasks, nextTaskId, agentLoads, aCur, aPhase>>
    /\ UNCHANGED <<passReady, agentVars, lifeVars, compVars>>

\* dispatchTasks: s.mu.Lock(); agent.CurrentLoad++; s.mu.Unlock().
DispatchIncrement ==
    /\ dpc = "ran"
    /\ agentLoads' = [agentLoads EXCEPT ![dAgent].CurrentLoad = @ + 1]
    /\ dpc' = "loop"
    /\ dTask' = 0
    /\ dAgent' = ""
    /\ dFrom' = ""
    /\ UNCHANGED <<taskQueues, tasks, gsTasks, nextTaskId, inboxTasks, aCur, aPhase,
                   enqOrder>>
    /\ UNCHANGED <<passReady, agentVars, lifeVars, compVars>>

(***************************************************************************)
(* The agent as the scheduler sees it.                                     *)
(***************************************************************************)
\* GlobalState.UpdateTask(taskID, updater): the updater runs on the object the
\* map holds under the ID, if there is one.
UpdateTaskObject(id) == gsTasks[id]

\* messageProcessingLoop takes the task-create message; ProcessTask marks the
\* task of that ID assigned to this agent in GlobalState.
AgentProcessTask(a) ==
    /\ aPhase[a] = "idle"
    /\ inboxTasks[a] # <<>>
    /\ LET t == Head(inboxTasks[a])
           g == UpdateTaskObject(tasks[t].ID)
       IN
        /\ aCur' = [aCur EXCEPT ![a] = t]
        /\ tasks' = IF g = 0 THEN tasks
                    ELSE [tasks EXCEPT ![g].Status = TaskStatusAssigned,
                                       ![g].AssignedTo = a]
    /\ inboxTasks' = [inboxTasks EXCEPT ![a] = Tail(@)]
    /\ aPhase' = [aPhase EXCEPT ![a] = "executing"]
    /\ UNCHANGED <<taskQueues, gsTasks, nextTaskId, agentLoads, dpc, dTask, dAgent,
                   dFrom, enqOrder>>
    /\ UNCHANGED <<passReady, agentVars, lifeVars, compVars>>

\* ProcessTask: CreateExecutionHistory returned an error (utils.NewUUID failed);
\* ProcessTask returns it at once, before executeTask and before completeFn.
AgentHistoryError(a) ==
    /\ aPhase[a] = "executing"
    /\ aPhase' = [aPhase EXCEPT ![a] = "idle"]
    /\ aCur' = [aCur EXCEPT ![a] = 0]
    /\ UNCHANGED <<taskQueues, tasks, gsTasks, nextTaskId, agentLoads, dpc, dTask, dAgent,
                   dFrom, inboxTasks, enqOrder>>
    /\ UNCHANGED <<passReady, agentVars, lifeVars, compVars>>

\* ProcessTask: executeTask returned; the status becomes completed or failed.
AgentExecuteDone(a, success) ==
    /\ aPhase[a] = "executing"
    /\ LET g == UpdateTaskObject(tasks[aCur[a]].ID) IN
        tasks' = IF g = 0 THEN tasks
                 ELSE [tasks EXCEPT ![g].Status =
                          IF success THEN TaskStatusCompleted ELSE TaskStatusFailed]
    /\ aPhase' = [aPhase EXCEPT ![a] = "notify"]
    /\ UNCHANGED <<taskQueues, gsTasks, nextTaskId, agentLoads, dpc, dTask, dAgent,
                   dFrom, inboxTasks, aCur, enqOrder>>
    /\ UNCHANGED <<passReady, agentVars, lifeVars, compVars>>

\* ProcessTask's completeFn(task.ID, a.name, success): AutoScheduler.OnTaskComplete.
OnTaskComplete(a) ==
    /\ aPhase[a] = "notify"
    /\ agentLoads' = IF a \in DOMAIN agentLoads
                     THEN [agentLoads EXCEPT ![a].CurrentLoad = DecrementLoad(@)]
                     ELSE agentLoads
    /\ aPhase' = [aPhase EXCEPT ![a] = "idle"]
    /\ aCur' = [aCur EXCEPT ![a] = 0]
    /\ UNCHANGED <<taskQueues, tasks, gsTasks, nextTaskId, dpc, dTask, dAgent,
                   dFrom, inboxTasks, enqOrder>>
    /\ UNCHANGED <<passReady, agentVars, lifeVars, compVars>>

\* The dependency lists AddTask is called with: none, or the ID that follows
\* the task's number cyclically, so that a dependency may name a task that does
\* not exist yet (task 1 on 2) or one that does (the last task on 1).
DepChoices(t) == {{}, {(t % NumTasks) + 1}}

\* The IDs GenerateTaskID can return for the next task: that of the previous
\* task (created within the same second) or the next one.
IdChoices ==
    IF nextTaskId = 1 THEN {1}
    ELSE {tasks[nextTaskId - 1].ID, tasks[nextTaskId - 1].ID + 1}

\* The ID of a task created at least a second after the previous one.
FreshId == IF nextTaskId = 1 THEN 1 ELSE tasks[nextTaskId - 1].ID + 1

\* The assignees of the tasks whose IDs may collide: unassigned, pinned to the
\* ceo, or pinned to a name no agent was registered under.
PinChoices == {"", "ceo", "ghost"}

\* The priorities AddTask is called with (getNextReady scans all four queues).
PriorityChoices == {PriorityCritical, PriorityMedium, PriorityLow}

\* The assignees AddTask is called with: unassigned, or pinned to the ceo.
AssigneeChoices == {"", "ceo"}

(***************************************************************************)
(* One agent (BaseAgentImpl) and its mailbox.                              *)
(***************************************************************************)
\* A channel send that is always ready: an inbox without a capacity.
InboxAlwaysHasRoom(q) == TRUE

\* PushInbox's case mb.Inbox <- msg is ready: the buffered channel has room.
InboxHasRoom(q) == Len(q) < InboxCap

\* A receive that takes the newest message of the inbox.
InboxReceiveNewest(q) == q[Len(q)]

\* messageProcessingLoop's msg := <-a.mailbox.Inbox: the oldest message.
InboxReceive(q) == Head(q)

\* A Stop that does not join its loops.
WaitGroupSkipped == TRUE

\* Stop's a.wg.Wait() returns: both loops have called wg.Done().
WaitGroupDone == wg = 0

\* A Stop that never takes the early return.
StopNeverNoop == FALSE

\* Stop's early return: if !a.running { return nil }.
StopIsNoop == ~running

\* A Start that never refuses.
StartNeverRefuses == FALSE

\* Start's refusal: if a.running { return fmt.Errorf("agent is already running") }.
StartRefuses == running

\* The loop id the next successful Start gives its goroutines.
NextLoopId == Cardinality({l \in LoopIds : msgLoop[l].pc # "none"}) + 1

\* The agent after NewBaseAgent: not running, stopCh open, inbox empty.
AgentInit ==
    /\ inbox = <<>>
    /\ msgKind = [m \in MsgIds |-> "none"]
    /\ nextMsgId = 1
    /\ sPc = [s \in Senders |-> "idle"]
    /\ sMsg = [s \in Senders |-> 0]
    /\ pushResult = [m \in MsgIds |-> "none"]
    /\ running = FALSE
    /\ stopClosed = FALSE
    /\ panicked = FALSE
    /\ mu = "free"
    /\ wg = 0
    /\ cPc = [c \in Callers |-> "idle"]
    /\ cRet = [c \in Callers |-> "none"]
    /\ cPath = [c \in Callers |-> ""]
    /\ nStarts = 0
    /\ msgLoop = [l \in LoopIds |-> [pc |-> "none", msg |-> 0]]
    /\ genLoop = [l \in LoopIds |-> "none"]
    /\ accepted = <<>>
    /\ delivered = <<>>
    /\ handled = [m \in MsgIds |-> 0]
    /\ refused = {}

\* Mailbox.PushInbox(msg) is entered (through MailboxBus.Send or ReceiveMessage)
\* with a new message: the send proceeds at once when the inbox has room,
\* otherwise the caller waits in the select.
PushInbox(s, kind) ==
    /\ sPc[s] = "idle"
    /\ nextMsgId <= NumMsgs
    /\ LET m == nextMsgId IN
        /\ msgKind' = [msgKind EXCEPT ![m] = kind]
        /\ nextMsgId' = m + 1
        /\ IF InboxHasRoom(inbox)
           THEN /\ inbox' = Append(inbox, m)
                /\ accepted' = Append(accepted, m)
                /\ pushResult' = [pushResult EXCEPT ![m] = "ok"]
                /\ UNCHANGED <<sPc, sMsg>>
           ELSE /\ sPc' = [sPc EXCEPT ![s] = "waiting"]
                /\ sMsg' = [sMsg EXCEPT ![s] = m]
                /\ UNCHANGED <<inbox, accepted, pushResult>>
    /\ UNCHANGED <<running, stopClosed, panicked, mu, wg, cPc, cRet, cPath, nStarts,
                   msgLoop, genLoop, delivered, handled, refused>>
    /\ UNCHANGED <<schedVars, lifeVars, compVars>>

\* PushInbox's select: the inbox got room within the 5 s, the send proceeds.
PushInboxSend(s) ==
    /\ sPc[s] = "waiting"
    /\ InboxHasRoom(inbox)
    /\ inbox' = Append(inbox, sMsg[s])
    /\ accepted' = Append(accepted, sMsg[s])
    /\ pushResult' = [pushResult EXCEPT ![sMsg[s]] = "ok"]
    /\ sPc' = [sPc EXCEPT ![s] = "idle"]
    /\ sMsg' = [sMsg EXCEPT ![s] = 0]
    /\ UNCHANGED <<msgKind, nextMsgId, running, stopClosed, panicked, mu, wg, cPc, cRet,
                   cPath, nStarts, msgLoop, genLoop, delivered, handled, refused>>
    /\ UNCHANGED <<schedVars, lifeVars, compVars>>

\* PushInbox's select: time.After(5 s) fired; the mailbox-full error is returned.
PushInboxTimeout(s) ==
    /\ sPc[s] = "waiting"
    /\ pushResult' = [pushResult EXCEPT ![sMsg[s]] = "full"]
    /\ sPc' = [sPc EXCEPT ![s] = "idle"]
    /\ sMsg' = [sMsg EXCEPT ![s] = 0]
    /\ UNCHANGED <<inbox, msgKind, nextMsgId, running, stopClosed, panicked, mu, wg, cPc,
                   cRet, cPath, nStarts, msgLoop, genLoop, accepted, delivered, handled,
                   refused>>
    /\ UNCHANGED <<schedVars, lifeVars, compVars>>

\* A caller enters Start and reaches a.processingMu.Lock().
CallStart(c) ==
    /\ cPc[c] = "idle"
    /\ nStarts < MaxStarts
    /\ nStarts' = nStarts + 1
    /\ cPc' = [cPc EXCEPT ![c] = "start"]
    /\ cRet' = [cRet EXCEPT ![c] = "none"]
    /\ cPath' = [cPath EXCEPT ![c] = ""]
    /\ UNCHANGED <<inbox, msgKind, nextMsgId, sPc, sMsg, pushResult, running, stopClosed,
                   panicked, mu, wg, msgLoop, genLoop, accepted, delivered, handled,
                   refused>>
    /\ UNCHANGED <<schedVars, lifeVars, compVars>>

\* BaseAgentImpl.Start under processingMu: refuses when running, otherwise sets
\* running, makes a new stopCh and starts the two loops.
Start(c) ==
    /\ cPc[c] = "start"
    /\ mu = "free"
    /\ IF StartRefuses
       THEN /\ cRet' = [cRet EXCEPT ![c] = "error"]
            /\ cPath' = [cPath EXCEPT ![c] = "alreadyRunning"]
            /\ UNCHANGED <<running, stopClosed, wg, msgLoop, genLoop>>
       ELSE /\ running' = TRUE
            /\ stopClosed' = FALSE
            /\ wg' = wg + 2
            /\ msgLoop' = [msgLoop EXCEPT ![NextLoopId] = [pc |-> "select", msg |-> 0]]
            /\ genLoop' = [genLoop EXCEPT ![NextLoopId] = "sleep"]
            /\ cRet' = [cRet EXCEPT ![c] = "nil"]
            /\ cPath' = [cPath EXCEPT ![c] = "started"]
    /\ cPc' = [cPc EXCEPT ![c] = "idle"]
    /\ UNCHANGED <<inbox, msgKind, nextMsgId, sPc, sMsg, pushResult, panicked, mu,
                   nStarts, accepted, delivered, handled, refused>>
    /\ UNCHANGED <<schedVars, lifeVars, compVars>>

\* A caller enters Stop and reaches a.processingMu.Lock().
CallStop(c) ==
    /\ cPc[c] = "idle"
    /\ cPc' = [cPc EXCEPT ![c] = "stop"]
    /\ cRet' = [cRet EXCEPT ![c] = "none"]
    /\ cPath' = [cPath EXCEPT ![c] = ""]
    /\ UNCHANGED <<inbox, msgKind, nextMsgId, sPc, sMsg, pushResult, running, stopClosed,
                   panicked, mu, wg, nStarts, msgLoop, genLoop, accepted, delivered,
                   handled, refused>>
    /\ UNCHANGED <<schedVars, lifeVars, compVars>>

\* BaseAgentImpl.Stop takes processingMu: returns nil at once when not running;
\* otherwise clears running, closes stopCh and goes on to a.wg.Wait() with the
\* mutex held (the deferred Unlock runs when Stop returns).
Stop(c) ==
    /\ cPc[c] = "stop"
    /\ mu = "free"
    /\ IF StopIsNoop
       THEN /\ cPc' = [cPc EXCEPT ![c] = "idle"]
            /\ cRet' = [cRet EXCEPT ![c] = "nil"]
            /\ cPath' = [cPath EXCEPT ![c] = "notRunning"]
            /\ UNCHANGED <<running, stopClosed, panicked, mu>>
       ELSE /\ running' = FALSE
            /\ stopClosed' = TRUE
            /\ panicked' = (panicked \/ stopClosed)
            /\ mu' = c
            /\ cPc' = [cPc EXCEPT ![c] = "stopWait"]
            /\ UNCHANGED <<cRet, cPath>>
    /\ UNCHANGED <<inbox, msgKind, nextMsgId, sPc, sMsg, pushResult, wg, nStarts,
                   msgLoop, genLoop, accepted, delivered, handled, refused>>
    /\ UNCHANGED <<schedVars, lifeVars, compVars>>

\* Stop: a.wg.Wait() returned; Stop returns nil and its deferred Unlock runs.
StopReturn(c) ==
    /\ cPc[c] = "stopWait"
    /\ WaitGroupDone
    /\ mu' = "free"
    /\ cPc' = [cPc EXCEPT ![c] = "idle"]
    /\ cRet' = [cRet EXCEPT ![c] = "nil"]
    /\ cPath' = [cPath EXCEPT ![c] = "stopped"]
    /\ UNCHANGED <<inbox, msgKind, nextMsgId, sPc, sMsg, pushResult, running, stopClosed,
                   panicked, wg, nStarts, msgLoop, genLoop, accepted, delivered, handled,
                   refused>>
    /\ UNCHANGED <<schedVars, lifeVars, compVars>>

\* messageProcessingLoop's select takes case <-a.stopCh: the loop returns and
\* its deferred wg.Done() runs.
LoopStop(l) ==
    /\ msgLoop[l].pc = "select"
    /\ stopClosed
    /\ msgLoop' = [msgLoop EXCEPT ![l] = [pc |-> "done", msg |-> 0]]
    /\ wg' = wg - 1
    /\ UNCHANGED <<inbox, msgKind, nextMsgId, sPc, sMsg, pushResult, running, stopClosed,
                   panicked, mu, cPc, cRet, cPath, nStarts, genLoop, accepted, delivered,
                   handled, refused>>
    /\ UNCHANGED <<schedVars, lifeVars, compVars>>

\* messageProcessingLoop's select takes case msg := <-a.mailbox.Inbox and calls
\* processMessageAsync(msg).  With stopCh closed as well, select picks either.
LoopReceive(l) ==
    /\ msgLoop[l].pc = "select"
    /\ inbox # <<>>
    /\ LET m == InboxReceive(inbox) IN
        /\ inbox' = RemoveElem(inbox, m)
        /\ delivered' = Append(delivered, m)
        /\ msgLoop' = [msgLoop EXCEPT ![l] = [pc |-> "got", msg |-> m]]
    /\ UNCHANGED <<msgKind, nextMsgId, sPc, sMsg, pushResult, running, stopClosed,
                   panicked, mu, wg, cPc, cRet, cPath, nStarts, genLoop, accepted,
                   handled, refused>>
    /\ UNCHANGED <<schedVars, lifeVars, compVars>>

\* The head of ProcessTask and of ProcessMessage: processingMu.Lock(); running
\* := a.running; Unlock(); "agent is not running" is returned when it is false.
CheckRunning(l) ==
    /\ mu = "free"
    /\ IF running
       THEN /\ msgLoop' = [msgLoop EXCEPT ![l].pc = "processing"]
            /\ handled' = [handled EXCEPT ![msgLoop[l].msg] = @ + 1]
            /\ UNCHANGED refused
       ELSE /\ msgLoop' = [msgLoop EXCEPT ![l] = [pc |-> "select", msg |-> 0]]
            /\ refused' = refused \cup {msgLoop[l].msg}
            /\ UNCHANGED handled

\* processMessageAsync found a task-create body: a.ProcessTask(ctx, task).
ProcessTask(l) ==
    /\ msgLoop[l].pc = "got"
    /\ msgKind[msgLoop[l].msg] = "task"
    /\ CheckRunning(l)
    /\ UNCHANGED <<inbox, msgKind, nextMsgId, sPc, sMsg, pushResult, running, stopClosed,
                   panicked, mu, wg, cPc, cRet, cPath, nStarts, genLoop, accepted,
                   delivered>>
    /\ UNCHANGED <<schedVars, lifeVars, compVars>>

\* processMessageAsync found another body: a.ProcessMessage(ctx, msg).
ProcessMessage(l) ==
    /\ msgLoop[l].pc = "got"
    /\ msgKind[msgLoop[l].msg] = "request"
    /\ CheckRunning(l)
    /\ UNCHANGED <<inbox, msgKind, nextMsgId, sPc, sMsg, pushResult, running, stopClosed,
                   panicked, mu, wg, cPc, cRet, cPath, nStarts, genLoop, accepted,
                   delivered>>
    /\ UNCHANGED <<schedVars, lifeVars, compVars>>

\* ProcessTask or ProcessMessage returns (executeTask or the handler is done,
\* with or without an error); the loop is back at its select.
ProcessReturn(l) ==
    /\ msgLoop[l].pc = "processing"
    /\ msgLoop' = [msgLoop EXCEPT ![l] = [pc |-> "select", msg |-> 0]]
    /\ UNCHANGED <<inbox, msgKind, nextMsgId, sPc, sMsg, pushResult, running, stopClosed,
                   panicked, mu, wg, cPc, cRet, cPath, nStarts, genLoop, accepted,
                   delivered, handled, refused>>
    /\ UNCHANGED <<schedVars, lifeVars, compVars>>

\* taskGenerationLoop: case <-a.stopCh in either select; the loop returns.
GenLoopStop(l) ==
    /\ genLoop[l] \in {"sleep", "wait"}
    /\ stopClosed
    /\ genLoop' = [genLoop EXCEPT ![l] = "done"]
    /\ wg' = wg - 1
    /\ UNCHANGED <<inbox, msgKind, nextMsgId, sPc, sMsg, pushResult, running, stopClosed,
                   panicked, mu, cPc, cRet, cPath, nStarts, msgLoop, accepted, delivered,
                   handled, refused>>
    /\ UNCHANGED <<schedVars, lifeVars, compVars>>

\* taskGenerationLoop: the first 10 s have passed; the loop is in its ticker
\* select, and a round of GenerateTasks and the submitter, which takes neither
\* processingMu nor the inbox, comes back to it.
GenLoopStep(l) ==
    /\ genLoop[l] = "sleep"
    /\ genLoop' = [genLoop EXCEPT ![l] = "wait"]
    /\ UNCHANGED <<inbox, msgKind, nextMsgId, sPc, sMsg, pushResult, running, stopClosed,
                   panicked, mu, wg, cPc, cRet, cPath, nStarts, msgLoop, accepted,
                   delivered, handled, refused>>
    /\ UNCHANGED <<schedVars, lifeVars, compVars>>

\* A handler panics inside ProcessTask / ProcessMessage.  Neither they, nor
\* processMessageAsync, nor messageProcessingLoop defers a recover(): the panic
\* unwinds the goroutine and ends the process; nothing is written to the
\* execution history and the loop does not come back to its select.
HandlerPanic(l) ==
    /\ msgLoop[l].pc = "processing"
    /\ ~panicked
    /\ panicked' = TRUE
    /\ UNCHANGED <<inbox, msgKind, nextMsgId, sPc, sMsg, pushResult, running, stopClosed,
                   mu, wg, cPc, cRet, cPath, nStarts, msgLoop, genLoop, accepted,
                   delivered, handled, refused>>
    /\ UNCHANGED <<schedVars, lifeVars, compVars>>

AgentNext ==
    \/ \E s \in Senders : PushInbox(s, SenderKind[s])
    \/ \E s \in Senders : PushInboxSend(s)
    \/ \E s \in Senders : PushInboxTimeout(s)
    \/ \E c \in Callers : CallStart(c)
    \/ \E c \in Callers : Start(c)
    \/ \E c \in Callers : CallStop(c)
    \/ \E c \in Callers : Stop(c)
    \/ \E c \in Callers : StopReturn(c)
    \/ \E l \in LoopIds : LoopStop(l)
    \/ \E l \in LoopIds : LoopReceive(l)
    \/ \E l \in LoopIds : ProcessTask(l)
    \/ \E l \in LoopIds : ProcessMessage(l)
    \/ \E l \in LoopIds : ProcessReturn(l)
    \/ \E l \in LoopIds : GenLoopStop(l)
    \/ \E l \in LoopIds : GenLoopStep(l)

\* AgentNext and a handler that panics.
AgentPanicNext ==
    \/ AgentNext
    \/ \E l \in LoopIds : HandlerPanic(l)

SchedNext ==
    \/ \E p \in PriorityChoices, assignee \in AssigneeChoices, deps \in DepChoices(nextTaskId) :
            AddTask(FreshId, p, assignee, deps)
    \/ Tick
    \/ DispatchSelect
    \/ DispatchFindAgent
    \/ DispatchRunTask
    \/ DispatchIncrement
    \/ \E a \in AgentNames : AgentProcessTask(a)
    \/ \E a \in AgentNames : AgentHistoryError(a)
    \/ \E a \in AgentNames, success \in BOOLEAN : AgentExecuteDone(a, success)
    \/ \E a \in AgentNames : OnTaskComplete(a)

(***************************************************************************)
(* AutoScheduler.Start/Stop/scheduleLoop and TimerEngine.Start/Stop/       *)
(* tickLoop: the same code shape, one stopCh made by the constructor.      *)
(***************************************************************************)
\* len(te.jobs) after NewTimerEngine: the configuration enables one timer job.
TimerJobCount == 1

\* TimerEngine.Start's early return: if len(te.jobs) == 0 { return }.
StartSkips(c) == c = "timer" /\ TimerJobCount = 0

\* The components after NewAutoScheduler and NewTimerEngine: stopCh open, no
\* goroutine.
LifeInit ==
    /\ lcStopClosed = [c \in Components |-> FALSE]
    /\ lcWg = [c \in Components |-> 0]
    /\ lcLoop = [c \in Components |-> [l \in LoopIds |-> "none"]]
    /\ lcStarts = [c \in Components |-> 0]
    /\ lcPc = [k \in Callers |-> "idle"]
    /\ lcComp = [k \in Callers |-> ""]
    /\ lcRet = [k \in Callers |-> "none"]
    /\ lcPanicked = FALSE

\* AutoScheduler.Start / TimerEngine.Start: wg.Add(1); go loop().
LifeStart(c) ==
    /\ ~lcPanicked
    /\ lcStarts[c] < MaxStarts
    /\ lcStarts' = [lcStarts EXCEPT ![c] = @ + 1]
    /\ IF StartSkips(c)
       THEN UNCHANGED <<lcWg, lcLoop>>
       ELSE /\ lcWg' = [lcWg EXCEPT ![c] = @ + 1]
            /\ lcLoop' = [lcLoop EXCEPT ![c][lcStarts[c] + 1] = "select"]
    /\ UNCHANGED <<lcStopClosed, lcPc, lcComp, lcRet, lcPanicked>>
    /\ UNCHANGED <<schedVars, agentVars, compVars>>

\* scheduleLoop / tickLoop: case <-ticker.C: dispatchTasks() or checkAndFire(now).
LifeLoopTick(c, l) ==
    /\ ~lcPanicked
    /\ lcLoop[c][l] = "select"
    /\ lcLoop' = [lcLoop EXCEPT ![c][l] = "working"]
    /\ UNCHANGED <<lcStopClosed, lcWg, lcStarts, lcPc, lcComp, lcRet, lcPanicked>>
    /\ UNCHANGED <<schedVars, agentVars, compVars>>

\* dispatchTasks or checkAndFire returned: the loop is back at its select.
LifeLoopWorkDone(c, l) ==
    /\ ~lcPanicked
    /\ lcLoop[c][l] = "working"
    /\ lcLoop' = [lcLoop EXCEPT ![c][l] = "select"]
    /\ UNCHANGED <<lcStopClosed, lcWg, lcStarts, lcPc, lcComp, lcRet, lcPanicked>>
    /\ UNCHANGED <<schedVars, agentVars, compVars>>

\* scheduleLoop / tickLoop: case <-stopCh: return, and the deferred wg.Done().
LifeLoopStop(c, l) ==
    /\ ~lcPanicked
    /\ lcLoop[c][l] = "select"
    /\ lcStopClosed[c]
    /\ lcLoop' = [lcLoop EXCEPT ![c][l] = "done"]
    /\ lcWg' = [lcWg EXCEPT ![c] = @ - 1]
    /\ UNCHANGED <<lcStopClosed, lcStarts, lcPc, lcComp, lcRet, lcPanicked>>
    /\ UNCHANGED <<schedVars, agentVars, compVars>>

\* AutoScheduler.Stop / TimerEngine.Stop: close(stopCh), then wg.Wait().  The
\* close of a closed channel panics.
LifeStop(k, c) ==
    /\ ~lcPanicked
    /\ lcPc[k] = "idle"
    /\ IF lcStopClosed[c]
       THEN /\ lcPanicked' = TRUE
            /\ UNCHANGED <<lcStopClosed, lcPc, lcComp, lcRet>>
       ELSE /\ lcStopClosed' = [lcStopClosed EXCEPT ![c] = TRUE]
            /\ lcPc' = [lcPc EXCEPT ![k] = "stopWait"]
            /\ lcComp' = [lcComp EXCEPT ![k] = c]
            /\ lcRet' = [lcRet EXCEPT ![k] = "none"]
            /\ UNCHANGED lcPanicked
    /\ UNCHANGED <<lcWg, lcLoop, lcStarts>>
    /\ UNCHANGED <<schedVars, agentVars, compVars>>

\* Stop: wg.Wait() returned, Stop returns.
LifeStopReturn(k) ==
    /\ ~lcPanicked
    /\ lcPc[k] = "stopWait"
    /\ lcWg[lcComp[k]] = 0
    /\ lcPc' = [lcPc EXCEPT ![k] = "idle"]
    /\ lcRet' = [lcRet EXCEPT ![k] = "returned"]
    /\ UNCHANGED <<lcStopClosed, lcWg, lcLoop, lcStarts, lcComp, lcPanicked>>
    /\ UNCHANGED <<schedVars, agentVars, compVars>>

LifeNext ==
    \/ \E c \in Components : LifeStart(c)
    \/ \E c \in Components, l \in LoopIds : LifeLoopTick(c, l)
    \/ \E c \in Components, l \in LoopIds : LifeLoopWorkDone(c, l)
    \/ \E c \in Components, l \in LoopIds : LifeLoopStop(c, l)
    \/ \E k \in Callers, c \in Components : LifeStop(k, c)
    \/ \E k \in Callers : LifeStopReturn(k)

(***************************************************************************)
(* A Task through Orchestrator.RunTask and back through the agent's        *)
(* processMessageAsync.  A time.Time is <<seconds, nanoseconds>>, a nil    *)
(* pointer is <<>>.                                                        *)
(***************************************************************************)
\* The tasks handed to RunTask: without a deadline, or with one that has or
\* has not a fraction of a second.
RtTasks ==
    [ID : {1, 2}, Title : {"t"}, Description : {"d"},
     AssignedTo : {"ceo", "ghost"}, AssignedBy : {"timer_engine", "cto"},
     Dependencies : {<<>>, <<1>>}, Deliverables : {<<>>, <<"doc">>},
     Metadata : {"none", "timer"}, Deadline : {<<>>, <<1, 0>>, <<1, 500>>}]

\* t.Format(time.RFC3339): a text with whole seconds only.
FormatRFC3339(t) == <<"s", t[1]>>

\* time.Parse(time.RFC3339, s).
ParseRFC3339(s) == <<s[2], 0>>

\* ds.NewTaskCreateMessage as RunTask calls it: the deadline argument is nil;
\* the deadline RunTask formats goes into a local body that is not the
\* message's body.
NewTaskCreateMessage(task) ==
    LET body == [Deadline |-> IF task.Deadline # <<>>
                              THEN FormatRFC3339(task.Deadline) ELSE <<>>]
    IN  [TaskID |-> task.ID, Title |-> task.Title, Description |-> task.Description,
         AssignedTo |-> task.AssignedTo, AssignedBy |-> task.AssignedBy,
         Dependencies |-> task.Dependencies, Deliverables |-> task.Deliverables,
         Deadline |-> <<>>, Metadata |-> task.Metadata]

\* processMessageAsync: the ds.Task built from the task-create body.
TaskFromBody(body) ==
    [ID |-> body.TaskID, Title |-> body.Title, Description |-> body.Description,
     AssignedTo |-> body.AssignedTo, AssignedBy |-> body.AssignedBy,
     Dependencies |-> body.Dependencies, Deliverables |-> body.Deliverables,
     Metadata |-> body.Metadata,
     Deadline |-> IF body.Deadline # <<>> THEN ParseRFC3339(body.Deadline) ELSE <<>>]

\* Orchestrator.RunTask(task): an unknown receiver is an error, otherwise the
\* message is built and sent.
RtRunTask ==
    /\ rt.pc = "task"
    /\ rt' = IF rt.task.AssignedTo \in AgentNames
             THEN [rt EXCEPT !.pc = "sent", !.msg = <<NewTaskCreateMessage(rt.task)>>]
             ELSE [rt EXCEPT !.pc = "error"]
    /\ UNCHANGED <<schedVars, agentVars, lifeVars, gs, bus, te, archive, lk>>

\* processMessageAsync(msg) up to its call of ProcessTask.
RtProcessMessageAsync ==
    /\ rt.pc = "sent"
    /\ rt' = [rt EXCEPT !.pc = "rebuilt", !.out = <<TaskFromBody(rt.msg[1])>>]
    /\ UNCHANGED <<schedVars, agentVars, lifeVars, gs, bus, te, archive, lk>>

(***************************************************************************)
(* GlobalState (package state) on its own: its mutators called in any      *)
(* order.  Messages, CompanyExecHistory and Announcements are lengths.     *)
(***************************************************************************)
\* No entry under a key of GlobalState.Tasks; a lookup gives nil.
NoEntry == [AssignedTo |-> "", Status |-> "none"]

\* The updaters ProcessTask passes to UpdateTask: "assign" (assigned to the
\* agent) and "complete".
ApplyUpdater(u, t) ==
    IF u = "assign" THEN [t EXCEPT !.AssignedTo = "ceo", !.Status = TaskStatusAssigned]
    ELSE [t EXCEPT !.Status = TaskStatusCompleted]

\* NewGlobalState(): empty maps and slices, Version 0.
GsInit ==
    gs = [Agents |-> {}, Tasks |-> [i \in 1..MaxGsTasks |-> NoEntry], Messages |-> 0,
          CompanyExecHistory |-> 0, Announcements |-> 0, Version |-> 0,
          Last |-> <<"NewGlobalState">>]

\* One call of a mutator: g is the GlobalState it leaves.
GsCall(call, g) ==
    /\ gs.Version < MaxVersion
    /\ gs' = [g EXCEPT !.Last = call]
    /\ UNCHANGED <<schedVars, agentVars, lifeVars, rt, bus, te, archive, lk>>

\* An UpdateTask that runs the updater whether or not the key exists.
TaskAlwaysExists(id) == TRUE

\* UpdateTask's  if task, exists := gs.Tasks[taskID]; exists.
TaskExists(id) == gs.Tasks[id] # NoEntry

\* GetTask(taskID): gs.Tasks[taskID], nil for an absent key.
GetTask(id) == gs.Tasks[id]

SetAgentState(name) ==
    GsCall(<<"SetAgentState", name>>,
           [gs EXCEPT !.Agents = @ \cup {name}, !.Version = @ + 1])

UpdateAgentState(name) ==
    GsCall(<<"UpdateAgentState", name>>,
           IF name \in gs.Agents THEN [gs EXCEPT !.Version = @ + 1] ELSE gs)

DeleteAgentState(name) ==
    GsCall(<<"DeleteAgentState", name>>,
           [gs EXCEPT !.Agents = @ \ {name}, !.Version = @ + 1])

GsAddTask(id, t) ==
    GsCall(<<"AddTask", id>>, [gs EXCEPT !.Tasks[id] = t, !.Version = @ + 1])

UpdateTask(id, u) ==
    GsCall(<<"UpdateTask", id>>,
           IF TaskExists(id)
           THEN [gs EXCEPT !.Tasks[id] = ApplyUpdater(u, @), !.Version = @ + 1]
           ELSE gs)

DeleteTask(id) ==
    GsCall(<<"DeleteTask", id>>, [gs EXCEPT !.Tasks[id] = NoEntry, !.Version = @ + 1])

AddMessage ==
    /\ gs.Messages < MaxGsLen
    /\ GsCall(<<"AddMessage">>, [gs EXCEPT !.Messages = @ + 1, !.Version = @ + 1])

\* AddExecutionHistory appends and leaves Version alone.
AddExecutionHistory ==
    /\ gs.CompanyExecHistory < MaxGsLen
    /\ GsCall(<<"AddExecutionHistory">>, [gs EXCEPT !.CompanyExecHistory = @ + 1])

\* AddPublicAnnouncement appends under the read lock and leaves Version alone.
AddPublicAnnouncement ==
    /\ gs.Announcements < MaxGsLen
    /\ GsCall(<<"AddPublicAnnouncement">>, [gs EXCEPT !.Announcements = @ + 1])

ClearTasks ==
    GsCall(<<"ClearTasks">>,
           [gs EXCEPT !.Tasks = [i \in 1..MaxGsTasks |-> NoEntry], !.Version = @ + 1])

ClearMessages ==
    GsCall(<<"ClearMessages">>, [gs EXCEPT !.Messages = 0, !.Version = @ + 1])

ClearAll ==
    GsCall(<<"ClearAll">>,
           [gs EXCEPT !.Agents = {}, !.Tasks = [i \in 1..MaxGsTasks |-> NoEntry],
                      !.Messages = 0, !.CompanyExecHistory = 0, !.Announcements = 0,
                      !.Version = @ + 1])

GsNext ==
    \/ \E name \in {"ceo"} :
            SetAgentState(name) \/ UpdateAgentState(name) \/ DeleteAgentState(name)
    \/ \E id \in 1..MaxGsTasks, a \in {"", "ceo"} :
            GsAddTask(id, [AssignedTo |-> a, Status |-> TaskStatusPending])
    \/ \E id \in 1..MaxGsTasks, u \in {"assign", "complete"} : UpdateTask(id, u)
    \/ \E id \in 1..MaxGsTasks : DeleteTask(id)
    \/ AddMessage
    \/ AddExecutionHistory
    \/ AddPublicAnnouncement
    \/ ClearTasks
    \/ ClearMessages
    \/ ClearAll

(***************************************************************************)
(* MailboxBus.Send with a mailbox per agent and one sender.                *)
(***************************************************************************)
\* NewMailboxBus and RegisterMailbox for every agent: empty inboxes.
BusInit ==
    bus = [inbox |-> [a \in AgentNames |-> <<>>], next |-> 1, pc |-> "idle",
           to |-> "", msg |-> 0, ret |-> "none"]

\* A caller enters Send(msg) with msg.Receiver = r.
BusCallSend(r) ==
    /\ bus.pc = "idle"
    /\ bus.next <= MaxBusMsgs
    /\ bus' = [bus EXCEPT !.pc = "called", !.to = r, !.msg = bus.next,
                          !.next = @ + 1, !.ret = "none"]
    /\ UNCHANGED <<schedVars, agentVars, lifeVars, rt, gs, te, archive, lk>>

\* Send: GetMailbox(msg.Receiver) fails; its error is returned.
BusSendUnknown ==
    /\ bus.pc = "called"
    /\ bus.to \notin DOMAIN bus.inbox
    /\ bus' = [bus EXCEPT !.pc = "idle", !.ret = "not found"]
    /\ UNCHANGED <<schedVars, agentVars, lifeVars, rt, gs, te, archive, lk>>

\* Send: m.Send(msg) puts the message into the inbox; return nil.
BusSendEnqueue ==
    /\ bus.pc = "called"
    /\ bus.to \in DOMAIN bus.inbox
    /\ Len(bus.inbox[bus.to]) < BusInboxCap
    /\ bus' = [bus EXCEPT !.inbox[bus.to] = Append(@, bus.msg), !.pc = "idle",
                          !.ret = "nil"]
    /\ UNCHANGED <<schedVars, agentVars, lifeVars, rt, gs, te, archive, lk>>

\* Send: m.Send(msg) gives up on a full inbox; whatever it reports is dropped
\* by the statement  m.Send(msg)  and Send goes on to  return nil.
BusSendFull ==
    /\ bus.pc = "called"
    /\ bus.to \in DOMAIN bus.inbox
    /\ Len(bus.inbox[bus.to]) >= BusInboxCap
    /\ bus' = [bus EXCEPT !.pc = "idle", !.ret = "nil"]
    /\ UNCHANGED <<schedVars, agentVars, lifeVars, rt, gs, te, archive, lk>>

\* The receiving agent takes the oldest message of its inbox.
BusReceive(a) ==
    /\ bus.inbox[a] # <<>>
    /\ bus' = [bus EXCEPT !.inbox[a] = Tail(@)]
    /\ UNCHANGED <<schedVars, agentVars, lifeVars, rt, gs, te, archive, lk>>

BusNext ==
    \/ \E r \in AgentNames \cup {"ghost"} : BusCallSend(r)
    \/ BusSendUnknown
    \/ BusSendEnqueue
    \/ BusSendFull
    \/ \E a \in AgentNames : BusReceive(a)

(***************************************************************************)
(* TimerEngine.tickLoop with the clock in whole seconds since Start.  The  *)
(* loop takes a tick before the clock moves on; te.added is the list of    *)
(* tasks handed to scheduler.AddTask.                                      *)
(***************************************************************************)
\* tickLoop's time.NewTicker(30 * time.Second), in seconds.
TickPeriod == 30

\* A checkAndFire that fires a job only once it has run before.
DueAfterIntervalOnly(job, now) ==
    job.LastRun # <<>> /\ now - job.LastRun[1] >= job.Interval

\* checkAndFire: job.LastRun.IsZero() || now.Sub(job.LastRun) >= job.Interval.
Due(job, now) ==
    job.LastRun = <<>> \/ now - job.LastRun[1] >= job.Interval

\* A fireJob whose task does not say where it comes from.
FireJobUntagged(job, now) ==
    [Status |-> TaskStatusPending, AssignedTo |-> job.TargetAgent,
     AssignedBy |-> "timer_engine", Priority |-> job.Priority,
     Source |-> "", TimerJob |-> job.Name, FiredAt |-> now]

\* fireJob(job, now): the task handed to scheduler.AddTask.
FireJob(job, now) ==
    [Status |-> TaskStatusPending, AssignedTo |-> job.TargetAgent,
     AssignedBy |-> "timer_engine", Priority |-> job.Priority,
     Source |-> "timer", TimerJob |-> job.Name, FiredAt |-> now]

\* A second passes; the ticker sends its time on ticker.C every TickPeriod.
TimerAdvance ==
    /\ te.tick = <<>>
    /\ te.now < MaxClock
    /\ LET n == te.now + 1 IN
        te' = [te EXCEPT !.now = n,
                         !.tick = IF n % TickPeriod = 0 THEN <<n>> ELSE <<>>]
    /\ UNCHANGED <<schedVars, agentVars, lifeVars, rt, gs, bus, archive, lk>>

\* tickLoop: case now := <-ticker.C: te.checkAndFire(now), which goes through
\* te.jobs in order, fires the enabled jobs that are due and sets their LastRun.
CheckAndFire ==
    /\ te.tick # <<>>
    /\ LET now == te.tick[1]
           fires(i) == te.jobs[i].Enabled /\ Due(te.jobs[i], now)
           fired == SelectSeq([i \in DOMAIN te.jobs |-> i], fires)
       IN  te' = [te EXCEPT
                    !.tick = <<>>,
                    !.jobs = [i \in DOMAIN te.jobs |->
                                IF fires(i) THEN [te.jobs[i] EXCEPT !.LastRun = <<now>>]
                                ELSE te.jobs[i]],
                    !.added = @ \o [k \in 1..Len(fired) |-> FireJob(te.jobs[fired[k]], now)]]
    /\ UNCHANGED <<schedVars, agentVars, lifeVars, rt, gs, bus, archive, lk>>

(***************************************************************************)
(* GlobalState.mu (a sync.RWMutex) and the operations on GlobalState data, *)
(* each between its entry and its return.  lk[t] is the operation thread t *)
(* is inside of, or "idle".                                                *)
(***************************************************************************)
\* How an operation takes gs.mu.  dispatchTasks sets task.AssignedTo and
\* task.Status on the *Task that AddTask stored in gs.Tasks, holding no lock.
LockMode(op) ==
    CASE op \in {"AddTask", "UpdateTask"} -> "Lock"
      [] op \in {"GetTask", "AddPublicAnnouncement"} -> "RLock"
      [] OTHER -> "none"

\* The operations that modify GlobalState data.
Writes(op) == op \in {"AddTask", "UpdateTask", "AddPublicAnnouncement", "dispatchTasks"}

\* Thread t enters op: mu.Lock() waits for every holder to leave, mu.RLock()
\* for a holder of Lock; dispatchTasks runs in the scheduler loop only.
GsEnter(t, op) ==
    /\ lk[t] = "idle"
    /\ op = "dispatchTasks" => t = "scheduler"
    /\ LockMode(op) = "Lock" => \A u \in Threads : LockMode(lk[u]) = "none"
    /\ LockMode(op) = "RLock" => \A u \in Threads : LockMode(lk[u]) # "Lock"
    /\ lk' = [lk EXCEPT ![t] = op]
    /\ UNCHANGED <<schedVars, agentVars, lifeVars, rt, gs, bus, te, archive>>

\* Thread t returns from its operation; the deferred Unlock / RUnlock runs.
GsLeave(t) ==
    /\ lk[t] # "idle"
    /\ lk' = [lk EXCEPT ![t] = "idle"]
    /\ UNCHANGED <<schedVars, agentVars, lifeVars, rt, gs, bus, te, archive>>

LockNext ==
    \/ \E t \in Threads :
            \E op \in {"AddTask", "UpdateTask", "GetTask", "AddPublicAnnouncement",
                       "dispatchTasks"} : GsEnter(t, op)
    \/ \E t \in Threads : GsLeave(t)

\* A TimerJob as NewTimerEngine registers it (LastRun zero) or as AddJob is
\* given it; the interval in seconds.
TimerJob(name, interval, enabled) ==
    [Name |-> name, Interval |-> interval, TargetAgent |-> "cto",
     Priority |-> PriorityMedium, LastRun |-> <<>>, Enabled |-> enabled]

\* NewTimerEngine with its jobs; nothing has ticked and nothing was added.
NewTimerEngine(jobs) ==
    te = [now |-> 0, tick |-> <<>>, added |-> <<>>, jobs |-> jobs]

\* The components after their constructors.
CompInit ==
    /\ GsInit
    /\ BusInit
    /\ NewTimerEngine(<<TimerJob("report", 10, TRUE)>>)
    /\ rt = [pc |-> "task", task |-> CHOOSE t \in RtTasks : t.Deadline = <<>>,
             msg |-> <<>>, out |-> <<>>]
    /\ archive = <<>>
    /\ lk = [t \in Threads |-> "idle"]

\* main's state once everything is constructed and nothing has run.
Init ==
    /\ SchedInit
    /\ AgentInit
    /\ LifeInit
    /\ CompInit

\* Any task at the door of RunTask.
RtInit ==
    /\ SchedInit
    /\ AgentInit
    /\ LifeInit
    /\ \E t \in RtTasks : rt = [pc |-> "task", task |-> t, msg |-> <<>>, out |-> <<>>]
    /\ GsInit
    /\ BusInit
    /\ NewTimerEngine(<<TimerJob("report", 10, TRUE)>>)
    /\ archive = <<>>
    /\ lk = [t \in Threads |-> "idle"]

\* The timer engine with the one job of the configuration, or with a second
\* job added by AddJob before Start.
TimerInit ==
    /\ SchedInit
    /\ AgentInit
    /\ LifeInit
    /\ GsInit
    /\ BusInit
    /\ rt = [pc |-> "task", task |-> CHOOSE t \in RtTasks : t.Deadline = <<>>,
             msg |-> <<>>, out |-> <<>>]
    /\ \/ NewTimerEngine(<<TimerJob("report", 10, TRUE)>>)
       \/ \E i \in {10, 40, 60}, e \in BOOLEAN :
            NewTimerEngine(<<TimerJob("report", 10, TRUE), TimerJob("audit", i, e)>>)
    /\ archive = <<>>
    /\ lk = [t \in Threads |-> "idle"]

\* SchedNext with tasks that may be created within the same second and so share
\* their ID; all of them Medium and without dependencies.
SchedIdNext ==
    \/ \E id \in IdChoices, assignee \in PinChoices :
            AddTask(id, PriorityMedium, assignee, {})
    \/ Tick
    \/ DispatchSelect
    \/ DispatchFindAgent
    \/ DispatchRunTask
    \/ DispatchIncrement
    \/ \E a \in AgentNames : AgentProcessTask(a)
    \/ \E a \in AgentNames : AgentHistoryError(a)
    \/ \E a \in AgentNames, success \in BOOLEAN : AgentExecuteDone(a, success)
    \/ \E a \in AgentNames : OnTaskComplete(a)

\* ds.TaskPriorityMedium.
TaskPriorityMedium == "medium"

\* parseLLMTasks: priority := ds.TaskPriority(r.Priority), and an empty one
\* becomes ds.TaskPriorityMedium.
ParseLLMPriority(r) == IF r = "" THEN TaskPriorityMedium ELSE r

\* taskGenerationLoop: priority := string(task.Priority), and an empty one
\* becomes "Medium".
SubmitPriority(tp) == IF tp = "" THEN "Medium" ELSE tp

\* taskGenerationLoop hands a task parsed from the LLM's answer (priority r,
\* assigned to the agent itself) to the submitter main has set, which calls
\* schedulerInstance.AddTask(task, priority).
SubmitGenerated(a, r) ==
    AddTask(FreshId, SubmitPriority(ParseLLMPriority(r)), a, {})

\* SchedNext fed by a timer job whose Critical tasks target an agent that is not
\* registered, by unassigned Low tasks, and by the ceo's task generation.
LevelsNext ==
    \/ AddTask(FreshId, PriorityCritical, "ghost", {})
    \/ AddTask(FreshId, PriorityLow, "", {})
    \/ \E r \in {"", "Low"} : SubmitGenerated("ceo", r)
    \/ Tick
    \/ DispatchSelect
    \/ DispatchFindAgent
    \/ DispatchRunTask
    \/ DispatchIncrement
    \/ \E a \in AgentNames : AgentProcessTask(a)
    \/ \E a \in AgentNames : AgentHistoryError(a)
    \/ \E a \in AgentNames, success \in BOOLEAN : AgentExecuteDone(a, success)
    \/ \E a \in AgentNames : OnTaskComplete(a)

\* SchedNext fed with unassigned Medium tasks without dependencies only.
BalanceNext ==
    \/ AddTask(FreshId, PriorityMedium, "", {})
    \/ Tick
    \/ DispatchSelect
    \/ DispatchFindAgent
    \/ DispatchRunTask
    \/ DispatchIncrement
    \/ \E a \in AgentNames : AgentProcessTask(a)
    \/ \E a \in AgentNames : AgentHistoryError(a)
    \/ \E a \in AgentNames, success \in BOOLEAN : AgentExecuteDone(a, success)
    \/ \E a \in AgentNames : OnTaskComplete(a)

\* The configured roster, or two equal agents.
BalanceInit ==
    /\ SchedInit \/ SchedInitEqualAgents
    /\ AgentInit
    /\ LifeInit
    /\ CompInit

\* The scheduler with the agent of AgentSpec left as constructed.
SchedSpec == Init /\ [][SchedNext]_vars

\* The scheduler balancing unassigned tasks over either roster.
BalanceSpec == BalanceInit /\ [][BalanceNext]_vars

\* The scheduler fed with tasks whose IDs may collide.
SchedIdSpec == Init /\ [][SchedIdNext]_vars

\* One agent with the scheduler left as constructed.
AgentSpec == Init /\ [][AgentNext]_vars

\* The scheduler's and the timer engine's Start and Stop, the rest as constructed.
LifeSpec == Init /\ [][LifeNext]_vars

\* The bus with one sender and the agents receiving.
BusSpec == Init /\ [][BusNext]_vars

\* GlobalState under any sequence of its mutators.
GlobalSpec == Init /\ [][GsNext]_vars

\* A task through RunTask and processMessageAsync.
RoundTripSpec == RtInit /\ [][RtRunTask \/ RtProcessMessageAsync]_vars

\* BalanceSpec with a scheduler goroutine that keeps running: a dispatch pass in
\* progress takes its next step.  Nothing is asked of the agents, whose
\* handlers may take any time.
PassFairSpec ==
    BalanceSpec /\ WF_vars(DispatchSelect) /\ WF_vars(DispatchFindAgent)
                /\ WF_vars(DispatchRunTask) /\ WF_vars(DispatchIncrement)

\* The scheduler under LevelsNext with every goroutine running: the ticker
\* ticks, a pass in progress goes on, the agents take and finish their tasks.
LevelsFairSpec ==
    /\ Init /\ [][LevelsNext]_vars
    /\ WF_vars(Tick) /\ WF_vars(DispatchSelect) /\ WF_vars(DispatchFindAgent)
    /\ WF_vars(DispatchRunTask) /\ WF_vars(DispatchIncrement)
    /\ \A a \in AgentNames :
            /\ WF_vars(AgentProcessTask(a))
            /\ WF_vars(\E success \in BOOLEAN : AgentExecuteDone(a, success))
            /\ WF_vars(OnTaskComplete(a))

\* The goroutines entering and leaving operations on GlobalState.
LockSpec == Init /\ [][LockNext]_vars

\* The timer engine's clock and tick loop.
TimerSpec == TimerInit /\ [][TimerAdvance \/ CheckAndFire]_vars

\* AgentSpec with handlers that may panic.
AgentPanicSpec == Init /\ [][AgentPanicNext]_vars

\* AgentSpec where time passes: the 5 s timer of a waiting PushInbox fires.
AgentFairSpec == AgentSpec /\ \A s \in Senders : WF_vars(PushInboxTimeout(s))

(***************************************************************************)
(* Scheduler claims.                                                       *)
(***************************************************************************)
\* The ids of the tasks that sit in some scheduler queue.
Queued == UNION {SeqToSet(taskQueues[k]) : k \in QueueKeys}

\* The step in which getNextReady hands a task to dispatchTasks.
SelectStep == dpc = "loop" /\ dpc' = "selected"

\* C1: for every registered agent, 0 <= CurrentLoad <= MaxTasks in every
\* reachable state, under any interleaving of the dispatch loop's steps and
\* OnTaskComplete.
C1_LoadWithinBounds ==
    \A a \in DOMAIN agentLoads :
        /\ 0 <= agentLoads[a].CurrentLoad
        /\ agentLoads[a].CurrentLoad <= agentLoads[a].MaxTasks

\* Every agent is loaded to its cap while one of them has already finished a
\* task whose completion callback is still to come.
C1_Witness ==
    /\ \A a \in DOMAIN agentLoads : agentLoads[a].CurrentLoad = agentLoads[a].MaxTasks
    /\ \E a \in AgentNames : aPhase[a] = "notify"

\* C2: the task dispatchTasks holds (selected, about to be sent, or sent) has
\* every dependency registered in GlobalState with status completed; and when
\* a task without dependencies is queued, getNextReady finds a task.
C2_DependenciesMetWhenDispatched ==
    /\ dpc \in {"selected", "assigned", "ran"} =>
            \A d \in tasks[dTask].Dependencies :
                gsTasks[d] # 0 /\ tasks[gsTasks[d]].Status = TaskStatusCompleted
    /\ (\E t \in Queued : tasks[t].Dependencies = {}) => GetNextReadyKey # ""

\* A task that has a dependency was accepted by RunTask.
C2_Witness ==
    /\ dpc = "ran"
    /\ tasks[dTask].Dependencies # {}

\* C3: getNextReady never selects a task of priority Low while a task of
\* priority Critical whose dependencies are met is queued.
C3_CriticalBeforeLow ==
    [][(SelectStep /\ tasks[dTask'].Priority = PriorityLow) =>
            ~\E u \in Queued :
                /\ tasks[u].Priority = PriorityCritical
                /\ AreDependenciesMet(u)]_vars

\* C4 as stated, for two tasks of the same priority that sit in the same queue:
\* getNextReady never selects one of them while the other, which AddTask added
\* earlier (a smaller id), is ready.
C4_FifoByAddTaskOrder ==
    [][SelectStep =>
            \A k \in QueueKeys :
                dTask' \in SeqToSet(taskQueues[k]) =>
                    ~\E u \in SeqToSet(taskQueues[k]) :
                        /\ u < dTask'
                        /\ tasks[u].Priority = tasks[dTask'].Priority
                        /\ AreDependenciesMet(u)]_vars

\* C4 amended: getNextReady selects, within a queue, in the order of the latest
\* enqueue (AddTask or requeue): no ready task enqueued into that queue before
\* the selected one is still in it.
C4_FifoByLatestEnqueue ==
    [][SelectStep =>
            \A k \in QueueKeys :
                dTask' \in SeqToSet(taskQueues[k]) =>
                    /\ dTask' \in SeqToSet(enqOrder[k])
                    /\ ~\E u \in SeqToSet(taskQueues[k]) :
                            /\ u \in SeqToSet(enqOrder[k])
                            /\ IndexOf(enqOrder[k], u) < IndexOf(enqOrder[k], dTask')
                            /\ AreDependenciesMet(u)]_vars

\* A task was selected ahead of a ready task of the same queue that AddTask had
\* added earlier and that a requeue had put behind it.
C4_Witness ==
    /\ dpc = "selected"
    /\ \E u \in SeqToSet(taskQueues[dFrom]) :
            /\ u < dTask
            /\ tasks[u].Priority = tasks[dTask].Priority
            /\ AreDependenciesMet(u)

(***************************************************************************)
(* Claims about the agent and its mailbox.                                 *)
(***************************************************************************)
Attempted == 1..(nextMsgId - 1)

Consumed == SeqToSet(delivered)

LiveMsgLoops == {l \in LoopIds : msgLoop[l].pc \in {"select", "got", "processing"}}

\* A PushInbox call is entered in this step, with message nextMsgId.
PushEntered == nextMsgId' = nextMsgId + 1

\* Caller c's Stop takes processingMu in this step.
StopStep(c) == cPc[c] = "stop" /\ cPc'[c] # "stop"

\* The loop holding message m waits for processingMu, which a Stop holds while
\* it waits for that loop: m can never be processed.
Stranded(m) ==
    \E l \in LoopIds, c \in Callers :
        /\ msgLoop[l] = [pc |-> "got", msg |-> m]
        /\ cPc[c] = "stopWait"
        /\ mu = c

\* C5: the inbox never holds more than its capacity; a PushInbox on an inbox
\* with room enqueues and succeeds in the same step; a message answered with the
\* mailbox-full error is never enqueued; and a PushInbox that waits on a full
\* inbox always comes back (with success or the error), it never blocks forever.
C5_BoundedInboxPush ==
    /\ [](Len(inbox) <= InboxCap)
    /\ [](\A m \in MsgIds : pushResult[m] = "full" =>
              m \notin SeqToSet(accepted) /\ m \notin SeqToSet(inbox))
    /\ [][PushEntered /\ Len(inbox) < InboxCap =>
              /\ inbox' = Append(inbox, nextMsgId)
              /\ pushResult'[nextMsgId] = "ok"]_vars
    /\ [][PushEntered /\ Len(inbox) >= InboxCap => inbox' = inbox]_vars
    /\ \A s \in Senders : (sPc[s] = "waiting") ~> (sPc[s] = "idle")

\* A push was refused with mailbox-full while the inbox is full, and another
\* push has succeeded at once.
C5_Witness ==
    /\ Len(inbox) = InboxCap
    /\ \E m \in MsgIds : pushResult[m] = "full"
    /\ \E m \in MsgIds : pushResult[m] = "ok"

\* C6: the messages handed to processMessageAsync are, in order, a prefix of the
\* messages in the order their PushInbox succeeded.
C6_DeliveredInEnqueueOrder ==
    /\ Len(delivered) <= Len(accepted)
    /\ \A i \in 1..Len(delivered) : delivered[i] = accepted[i]

\* Concurrent senders: a later message overtook a waiting one, and both have
\* been handed to processMessageAsync, with a full inbox having been drained.
C6_Witness ==
    /\ Len(delivered) >= 3
    /\ \E i, j \in 1..Len(delivered) : i < j /\ delivered[i] > delivered[j]

\* C7: every attempted message has exactly one outcome: processed exactly once,
\* or rejected with mailbox-full and never processed, or still in the inbox; no
\* message is processed twice and none is taken from the inbox without being
\* processed (a message in a loop's hands can still be processed).
C7_ExactlyOneOutcome ==
    \A m \in Attempted :
        /\ handled[m] <= 1
        /\ pushResult[m] = "full" => handled[m] = 0 /\ m \notin Consumed
        /\ m \in Consumed => m \notin refused /\ ~Stranded(m)
        /\ handled[m] = 1 => m \in Consumed /\ m \notin SeqToSet(inbox)

\* C8: at most one message loop is alive, hence at most one message or task is
\* being processed, whatever Start and Stop calls were made.
C8_SingleProcessing ==
    /\ Cardinality(LiveMsgLoops) <= 1
    /\ Cardinality({l \in LoopIds : msgLoop[l].pc = "processing"}) <= 1
    /\ Cardinality({l \in LoopIds : genLoop[l] \in {"sleep", "wait"}}) <= 1

\* The agent was stopped and started again: the first loop has exited and the
\* second is processing a message.
C8_Witness ==
    /\ msgLoop[1].pc = "done"
    /\ msgLoop[2].pc = "processing"

\* C9: a Stop of a running agent terminates: no state has Stop waiting for the
\* loops with processingMu held while a loop waits for processingMu.
C9_StopTerminates ==
    \A c \in Callers :
        cPc[c] = "stopWait" =>
            \A l \in LoopIds : msgLoop[l].pc # "got"

\* C10: a Stop of an agent that is not running returns nil and leaves the
\* running flag, the stop channel, the loops and the wait group as they were,
\* and never closes the closed channel.
C10_StopIdempotent ==
    [][\A c \in Callers :
          StopStep(c) /\ ~running =>
              /\ cPc'[c] = "idle"
              /\ cRet'[c] = "nil"
              /\ ~panicked'
              /\ UNCHANGED <<running, stopClosed, msgLoop, genLoop, wg, mu, inbox>>]_vars

\* A first Stop stopped the running agent and returned; a second Stop, on the
\* stopped agent, returned by the early return.
C10_Witness ==
    /\ ~running
    /\ stopClosed
    /\ cPath["c1"] = "stopped"
    /\ cPath["c2"] = "notRunning"
    /\ cRet["c2"] = "nil"

(***************************************************************************)
(* Claims about Start and Stop of the components.                          *)
(***************************************************************************)
\* A Stop of component c has returned.
StopReturned(c) == \E k \in Callers : lcRet[k] = "returned" /\ lcComp[k] = c

\* C11: for the AutoScheduler and the TimerEngine, a Stop called after a Stop
\* that has returned does not fault and leaves the component as the first Stop
\* left it: stop channel closed, wait group and loops unchanged.
C11_StopTwiceIsStopOnce ==
    [][\A k \in Callers, c \in Components :
          LifeStop(k, c) /\ StopReturned(c) =>
              /\ ~lcPanicked'
              /\ lcStopClosed'[c]
              /\ UNCHANGED <<lcWg, lcLoop>>]_vars

(***************************************************************************)
(* Claims about the agent's Start and Stop.                                *)
(***************************************************************************)
\* Stop has cleared running and closed stopCh, and no Start has run since.
StopBegun == ~running /\ stopClosed

\* No caller is inside Stop's wg.Wait(): every Stop that began has returned.
StopHasReturned == \A c \in Callers : cPc[c] # "stopWait"

\* C12: once Stop has begun the agent takes no further message from its inbox
\* (the inbox keeps what it holds, senders may still add); and once Stop has
\* returned nothing is processed until the agent is started again.
C12_NoWorkAfterStop ==
    [][/\ StopBegun => delivered' = delivered
       /\ StopBegun /\ StopHasReturned /\ StopBegun' => handled' = handled]_vars

\* Caller c's Start takes processingMu in this step.
StartStep(c) == cPc[c] = "start" /\ cPc'[c] # "start"

\* C13: a Start of a running agent returns the error and changes nothing: the
\* running flag stays true, the stop channel, the wait group and the loops are
\* as before, no loop is spawned.
C13_StartWhileRunningRefused ==
    [][\A c \in Callers :
          StartStep(c) /\ running =>
              /\ cRet'[c] = "error"
              /\ running'
              /\ UNCHANGED <<stopClosed, wg, msgLoop, genLoop, mu, inbox>>]_vars

\* A second Start was refused while the loops of the first are alive.
C13_Witness ==
    /\ running
    /\ \E c \in Callers : cPath[c] = "alreadyRunning" /\ cRet[c] = "error"
    /\ msgLoop[1].pc = "select"
    /\ msgLoop[2].pc = "none"

(***************************************************************************)
(* Claims about task status, completion and agent selection.               *)
(***************************************************************************)
\* GlobalState.GetTask(id).Status ("none": no entry under the ID).
GsStatus(id) == IF gsTasks[id] = 0 THEN "none" ELSE tasks[gsTasks[id]].Status

\* The status changes the lifecycle pending -> assigned -> processing ->
\* {completed | failed} consists of, with the registration by AddTask.
LifecycleSteps ==
    {<<"none", TaskStatusPending>>,
     <<TaskStatusPending, TaskStatusAssigned>>,
     <<TaskStatusAssigned, TaskStatusProcessing>>,
     <<TaskStatusProcessing, TaskStatusCompleted>>,
     <<TaskStatusProcessing, TaskStatusFailed>>}

\* C14: the status GlobalState holds for a task ID only changes by a step of
\* pending -> assigned -> processing -> {completed | failed}; in particular a
\* status of completed or failed never changes again.
C14_StatusLifecycle ==
    [][\A id \in Ids :
          GsStatus(id)' # GsStatus(id) =>
              <<GsStatus(id), GsStatus(id)'>> \in LifecycleSteps]_vars

\* C15: no scheduler queue holds a task whose ID has the status completed in
\* GlobalState.
C15_CompletedNotQueued ==
    \A id \in Ids :
        GsStatus(id) = TaskStatusCompleted =>
            ~\E t \in Queued : tasks[t].ID = id

\* C16: a ProcessTask that has taken a task-create message returns only after
\* it has invoked the completion callback for it, on every path.
C16_CallbackOnEveryPath ==
    [][\A a \in AgentNames :
          aPhase[a] # "idle" /\ aPhase'[a] = "idle" => aPhase[a] = "notify"]_vars

\* The step in which findBestAgent returns an agent for the selected task.
AgentChosenStep == dpc = "selected" /\ dpc' = "assigned"

\* The step in which findBestAgent returns nil for the selected task.
NoAgentStep == dpc = "selected" /\ dpc' = "idle"

\* C17: for a task that AddTask got with a non-empty AssignedTo, findBestAgent
\* returns that agent and only when it is registered with CurrentLoad <
\* MaxTasks; otherwise it returns nil.  No other agent is ever chosen.
C17_PinnedTaskKeepsAgent ==
    [][dpc = "selected" /\ tasks[dTask].EnqueuedFor # "" =>
          /\ AgentChosenStep =>
                /\ dAgent' = tasks[dTask].EnqueuedFor
                /\ dAgent' \in DOMAIN agentLoads
                /\ agentLoads[dAgent'].CurrentLoad < agentLoads[dAgent'].MaxTasks
          /\ NoAgentStep =>
                \/ tasks[dTask].EnqueuedFor \notin DOMAIN agentLoads
                \/ ~(agentLoads[tasks[dTask].EnqueuedFor].CurrentLoad
                        < agentLoads[tasks[dTask].EnqueuedFor].MaxTasks)]_vars

\* Agent a has capacity, and b's load ratio CurrentLoad/MaxTasks is not below
\* a's, and at the same ratio b's hierarchy is not above a's.
BestAmong(a, b) ==
    LET la == agentLoads[a].CurrentLoad * agentLoads[b].MaxTasks
        lb == agentLoads[b].CurrentLoad * agentLoads[a].MaxTasks
    IN  /\ la <= lb
        /\ la = lb => agentLoads[a].Hierarchy >= agentLoads[b].Hierarchy

WithCapacity == {a \in DOMAIN agentLoads : agentLoads[a].CurrentLoad < agentLoads[a].MaxTasks}

\* The two agents have max_tasks 2 and the same hierarchy.
EqualAgents ==
    \A a, b \in DOMAIN agentLoads :
        agentLoads[a].MaxTasks = 2 /\ agentLoads[a].Hierarchy = agentLoads[b].Hierarchy

\* Exactly three tasks were enqueued and no agent has finished one.
ThreeTasksNoneFinished ==
    /\ nextTaskId = 4
    /\ \A t \in 1..3 : tasks[t].Status \notin {TaskStatusCompleted, TaskStatusFailed}

\* The dispatch pass ends in this step.
PassEnds == dpc # "idle" /\ dpc' = "idle"

\* C18: for an unassigned task findBestAgent returns an agent with capacity
\* whose load ratio is minimal and, at that ratio, whose hierarchy is highest,
\* and nil exactly when no agent has capacity; and with two equal agents of
\* max_tasks 2 and three unassigned Medium tasks, none of them finished, a
\* dispatch pass ends with loads 2 and 1 and empty queues.
C18_LeastLoadedAgent ==
    [][/\ dpc = "selected" /\ tasks[dTask].AssignedTo = "" =>
            /\ AgentChosenStep =>
                    /\ dAgent' \in WithCapacity
                    /\ \A b \in WithCapacity : BestAmong(dAgent', b)
            /\ NoAgentStep <=> (dpc' # dpc /\ WithCapacity = {})
       /\ PassEnds /\ EqualAgents /\ ThreeTasksNoneFinished =>
            /\ Queued' = {}
            /\ {agentLoads'[a].CurrentLoad : a \in AgentNames} = {1, 2}]_vars

\* Two equal agents, three tasks, none finished: the pass has ended with loads
\* 2 and 1 and nothing queued.
C18_Witness ==
    /\ EqualAgents
    /\ ThreeTasksNoneFinished
    /\ dpc = "idle"
    /\ Queued = {}
    /\ {agentLoads[a].CurrentLoad : a \in AgentNames} = {1, 2}

\* Task t was enqueued as Critical for the ceo, without dependencies.
PinnedCritical(t) ==
    /\ tasks[t].EnqueuedFor = "ceo"
    /\ tasks[t].Priority = PriorityCritical
    /\ tasks[t].Dependencies = {}

\* Task u was enqueued as Low for nobody, without dependencies.
UnassignedLow(u) ==
    /\ tasks[u].EnqueuedFor = ""
    /\ tasks[u].Priority = PriorityLow
    /\ tasks[u].Dependencies = {}

\* The ceo's CurrentLoad has reached its MaxTasks.
CeoFull == agentLoads["ceo"].CurrentLoad >= agentLoads["ceo"].MaxTasks

\* The queues that getNextReady scans before the Low queue.
AheadOfLow == SeqToSet(taskQueues[PriorityCritical])
                \cup SeqToSet(taskQueues[PriorityHigh])
                \cup SeqToSet(taskQueues[PriorityMedium])

DependenciesUnmet(t) ==
    \E d \in tasks[t].Dependencies :
        gsTasks[d] = 0 \/ tasks[gsTasks[d]].Status # TaskStatusCompleted

\* The tasks that were ready with an agent when the pass began, that the pass
\* has not dispatched and that still have an agent after this step.
LeftBehind ==
    {t \in passReady :
        /\ t \in Queued'
        /\ tasks'[t].Status = TaskStatusPending
        /\ \E a \in DOMAIN agentLoads' :
            /\ tasks'[t].AssignedTo \in {"", a}
            /\ agentLoads'[a].CurrentLoad < agentLoads'[a].MaxTasks}

C21_TaskRoundTrip ==
    rt.pc = "rebuilt" => rt.out[1] = rt.task

\* The last call was an update of a key that the map does not hold.
UpdateOfAbsentKey ==
    \/ gs'.Last[1] = "UpdateTask" /\ gs.Tasks[gs'.Last[2]] = NoEntry
    \/ gs'.Last[1] = "UpdateAgentState" /\ gs'.Last[2] \notin gs.Agents

\* C22: every call of a mutating operation of GlobalState leaves Version
\* larger than it found it (an update of an absent key aside, which mutates
\* nothing).
C22_VersionIncreases ==
    [][gs'.Version > gs.Version \/ UpdateOfAbsentKey]_vars

\* C23: UpdateTask with an id that is not in the task map changes nothing of
\* GlobalState: the updater is not run and Version stays; GetTask of an absent
\* id is nil.
C23_UpdateAbsentIsNoop ==
    /\ [][gs'.Last[1] = "UpdateTask" /\ gs.Tasks[gs'.Last[2]] = NoEntry =>
              gs' = [gs EXCEPT !.Last = gs'.Last]]_vars
    /\ [](\A id \in 1..MaxGsTasks : gs.Tasks[id].Status = "none" => GetTask(id) = NoEntry)

\* UpdateTask has just been called with an id the map does not hold, in a
\* GlobalState that other mutators have changed before.
C23_Witness ==
    /\ gs.Last[1] = "UpdateTask"
    /\ gs.Tasks[gs.Last[2]] = NoEntry
    /\ gs.Version > 0
    /\ \E id \in 1..MaxGsTasks : gs.Tasks[id] # NoEntry

\* C24: every task in GlobalState's task map is unassigned or assigned to a
\* key of GlobalState's agents map.
C24_AssigneeIsAgent ==
    \A id \in 1..MaxGsTasks :
        gs.Tasks[id] # NoEntry =>
            gs.Tasks[id].AssignedTo = "" \/ gs.Tasks[id].AssignedTo \in gs.Agents

\* C25: any two tasks created by the timer engine or by self-generation have
\* distinct ids, so that no task registered in GlobalState is overwritten.
C25_DistinctTaskIds ==
    \A t, u \in 1..(nextTaskId - 1) :
        t # u => /\ tasks[t].ID # tasks[u].ID
                 /\ gsTasks[tasks[t].ID] = t

\* Send returns in this step.
SendReturns == bus.pc = "called" /\ bus'.pc = "idle"

\* C26: Send to a receiver without a mailbox returns receiver-not-found and
\* changes no mailbox; Send to a full inbox returns the mailbox-full error;
\* Send returns nil only if the message is in the receiver's inbox.
C26_SendReportsOutcome ==
    [][SendReturns =>
          /\ bus.to \notin DOMAIN bus.inbox =>
                bus'.ret = "not found" /\ bus'.inbox = bus.inbox
          /\ bus.to \in DOMAIN bus.inbox /\ Len(bus.inbox[bus.to]) >= BusInboxCap =>
                bus'.ret = "full"
          /\ bus'.ret = "nil" =>
                bus.to \in DOMAIN bus.inbox /\ bus.msg \in SeqToSet(bus'.inbox[bus.to])]_vars

\* C27: a panic of a message handler is recovered at the per-message boundary:
\* a step taken while a loop is inside a handler, other than a step of Start or
\* Stop, does not bring the process down; the loop goes on with its messages.
C27_HandlerPanicRecovered ==
    [][(\E l \in LoopIds : msgLoop[l].pc = "processing") /\ cPc' = cPc
            => panicked' = panicked]_vars

\* The configuration of scenario S6: one enabled job with an interval of 10 s.
OneJobEveryTenSeconds ==
    Len(te.jobs) = 1 /\ te.jobs[1].Enabled /\ te.jobs[1].Interval = 10

\* The tasks added so far all carry metadata source = "timer".
AddedByTimer == \A k \in DOMAIN te.added : te.added[k].Source = "timer"

\* C28 as stated: with one enabled job of interval 10 s and the 30-second tick,
\* 35 seconds after start exactly three timer tasks have been added.
C28_ThreeInjections ==
    OneJobEveryTenSeconds /\ te.now = 35 /\ te.tick = <<>>
        => Len(te.added) = 3 /\ AddedByTimer

\* C28 amended: with one enabled job of interval 10 s and the 30-second tick,
\* 35 seconds after start exactly one timer task has been added, by the tick at
\* 30 s; in general the job has fired once for every tick that has passed.
C28_OneInjectionPerTick ==
    OneJobEveryTenSeconds /\ te.tick = <<>>
        => /\ Len(te.added) = te.now \div TickPeriod
           /\ AddedByTimer
           /\ te.now = 35 => Len(te.added) = 1 /\ te.added[1].FiredAt = 30

\* C28 witness: 35 seconds after start, the job of S6 has fired at the 30 s tick.
C28_Witness ==
    OneJobEveryTenSeconds /\ te.now = 35 /\ te.tick = <<>> /\ Len(te.added) = 1

\* C29: every dispatch pass terminates: a pass in progress leads to the
\* scheduler loop being back at its select, where Stop's close is seen.
C29_PassTerminates == (dpc # "idle") ~> (dpc = "idle")

\* The number of places task t takes in the queues.
TimesQueued(queues, t) ==
    Len(SelectSeq(queues[PriorityCritical] \o queues[PriorityHigh]
                    \o queues[PriorityMedium] \o queues[PriorityLow],
                  LAMBDA x : x = t))

\* C30: when RunTask returns an error during dispatch, the task is back in the
\* scheduler's queues exactly once, the selected agent's CurrentLoad is what it
\* was, and no mailbox holds a message for the task.
C30_FailedDispatchRequeuedOnce ==
    [][dpc = "assigned" /\ dpc' = "loop"
        => /\ TimesQueued(taskQueues', dTask) = 1
           /\ agentLoads' = agentLoads
           /\ \A a \in AgentNames : dTask \notin SeqToSet(inboxTasks'[a])]_vars

\* C30 witness: RunTask has failed for a task: it is queued once with the
\* assignment dispatchTasks made, its agent's inbox is full without it.
C30_Witness ==
    \E t \in Queued :
        /\ dpc = "loop"
        /\ tasks[t].Status = TaskStatusAssigned
        /\ TimesQueued(taskQueues, t) = 1
        /\ Len(inboxTasks[tasks[t].AssignedTo]) = SchedInboxCap
        /\ \A a \in AgentNames : t \notin SeqToSet(inboxTasks[a])

(***************************************************************************)
(* Priority levels, starvation, load accounting and delivery.              *)
(***************************************************************************)
\* C31: requeueTask puts a task back into the sub-queue of its own priority
\* level, the one AddTask enqueued it at: every queued task sits in the queue
\* that its priority names.
C31_RequeueKeepsLevel ==
    \A k \in QueueKeys : \A t \in SeqToSet(taskQueues[k]) : tasks[t].Priority = k

\* Task u has been sent to an agent: it is in an inbox or with the agent.
Dispatched(u) ==
    \E a \in AgentNames : u \in SeqToSet(inboxTasks[a]) \/ aCur[a] = u

\* C32: a queued task pinned to a saturated or unregistered agent does not block
\* the others: an unassigned Low task in the queue is eventually dispatched by
\* the repeated passes.
C32_NoHeadOfLineBlocking ==
    \A u \in TaskIds :
        (u \in SeqToSet(taskQueues[PriorityLow]) /\ tasks[u].AssignedTo = "")
            ~> Dispatched(u)

\* The tasks of job j among those a step has added to the scheduler.
AddedFor(j) ==
    {k \in (Len(te.added) + 1)..Len(te'.added) : te'.added[k].TimerJob = te.jobs[j].Name}

\* C33: on a tick at time now every enabled job whose lastRun is zero or at
\* least its interval ago fires exactly once (one pending task with source
\* "timer" is added and lastRun becomes now), every other job does not fire and
\* keeps its lastRun; a disabled job never has a lastRun.
C33_TickFiresDueJobsOnce ==
    /\ [](\A j \in DOMAIN te.jobs : ~te.jobs[j].Enabled => te.jobs[j].LastRun = <<>>)
    /\ [][te.tick # <<>> =>
            \A j \in DOMAIN te.jobs :
                IF /\ te.jobs[j].Enabled
                   /\ \/ te.jobs[j].LastRun = <<>>
                      \/ te.tick[1] - te.jobs[j].LastRun[1] >= te.jobs[j].Interval
                THEN /\ Cardinality(AddedFor(j)) = 1
                     /\ \A k \in AddedFor(j) :
                            /\ te'.added[k].Status = TaskStatusPending
                            /\ te'.added[k].Source = "timer"
                     /\ te'.jobs[j].LastRun = te.tick
                ELSE /\ AddedFor(j) = {}
                     /\ te'.jobs[j].LastRun = te.jobs[j].LastRun]_vars

\* C33 witness: the tick at 60 s has fired the 10 s job a second time and has
\* left alone the enabled 40 s job, which last ran at 30 s.
C33_Witness ==
    /\ Len(te.jobs) = 2
    /\ te.now = 60 /\ te.tick = <<>>
    /\ te.jobs[1].LastRun = <<60>>
    /\ te.jobs[2].Enabled /\ te.jobs[2].Interval = 40 /\ te.jobs[2].LastRun = <<30>>
    /\ Len(te.added) = 3

\* C34: a self-generated task for which the LLM gave no priority (its Priority
\* is then the default of parseLLMTasks) is submitted with the priority string
\* "Medium": the step that adds it puts it into the Medium sub-queue.
C34_DefaultLandsInMedium ==
    [][\A t \in TaskIds :
            tasks[t].Status = "none" /\ tasks'[t].Priority = ParseLLMPriority("")
                => t \in SeqToSet(taskQueues'[PriorityMedium])]_vars

\* C38: every task added with AddTask(task, priority) is eventually selected by
\* a dispatch pass, whatever the priority string: here a task without
\* dependencies that the ceo generated for itself with the default priority of
\* parseLLMTasks.
C38_AddedTaskIsSelected ==
    \A t \in TaskIds :
        (tasks[t].Status = TaskStatusPending /\ tasks[t].Priority = TaskPriorityMedium)
            ~> (dTask = t)

\* C35: every message the message loop has finished processing is in the
\* mailbox archive when the loop is back at its select.
C35_ProcessedIsArchived ==
    [][\A l \in LoopIds :
            msgLoop[l].pc = "processing" /\ msgLoop'[l].pc = "select"
                => msgLoop[l].msg \in SeqToSet(archive')]_vars

\* C36: writes to GlobalState are exclusive: while a thread is inside an
\* operation that modifies GlobalState data, no other thread is inside any
\* operation on it.
C36_WritersAreExclusive ==
    \A t \in Threads : \A u \in Threads \ {t} : Writes(lk[t]) => lk[u] = "idle"

\* C37: in every quiescent state (no dispatch pass and no ProcessTask in
\* progress) each agent's CurrentLoad is the number of dispatched tasks still
\* in its inbox; with nothing left in the inboxes every CurrentLoad is 0.
C37_LoadIsInFlight ==
    dpc = "idle" /\ (\A a \in AgentNames : aPhase[a] = "idle")
        => \A a \in AgentNames : agentLoads[a].CurrentLoad = Len(inboxTasks[a])

\* C39: every queued task has status pending, and a task that AddTask enqueued
\* unassigned is unassigned while it is queued (a failed dispatch and its
\* requeue leave assignedTo and status as they were before the attempt).
C39_QueuedIsPendingAndUnpinned ==
    \A t \in Queued :
        /\ tasks[t].Status = TaskStatusPending
        /\ tasks[t].EnqueuedFor = "" => tasks[t].AssignedTo = ""

\* The number of places task t takes in the agents' inboxes.
TimesInInbox(inboxes, t) ==
    Cardinality({ai \in AgentNames \X (1..SchedInboxCap) :
                    ai[2] <= Len(inboxes[ai[1]]) /\ inboxes[ai[1]][ai[2]] = t})

\* The dispatcher holds t: taken from its queue and not yet sent or requeued.
InHands(t) == dTask = t /\ dpc \in {"selected", "assigned"}

\* Task t has been sent to an agent: it was added and is neither queued nor
\* in the dispatcher's hands.
Delivered(t) ==
    tasks[t].Status # "none" /\ TimesQueued(taskQueues, t) = 0 /\ ~InHands(t)

\* C40: a task added once is delivered at most once: it is in at most one
\* place among the queues (one entry), the dispatcher's hands, an inbox and an
\* agent processing it; once delivered it never is queued or selected again;
\* and a step puts it into an inbox only from the dispatcher's hands, once.
C40_DeliveredAtMostOnce ==
    /\ [](\A t \in TaskIds :
            TimesQueued(taskQueues, t) + (IF InHands(t) THEN 1 ELSE 0)
                + TimesInInbox(inboxTasks, t)
                + Cardinality({a \in AgentNames : aCur[a] = t}) <= 1)
    /\ [][\A t \in TaskIds :
            /\ Delivered(t) => Delivered(t)'
            /\ TimesInInbox(inboxTasks', t) > TimesInInbox(inboxTasks, t)
                    => InHands(t) /\ TimesInInbox(inboxTasks', t) = 1]_vars

\* C40 witness: one task has been delivered and processed to its end while
\* another one, requeued after a failed dispatch, waits in a queue.
C40_Witness ==
    \E t \in TaskIds : \E u \in Queued :
        /\ Delivered(t)
        /\ TimesInInbox(inboxTasks, t) = 0
        /\ \A a \in AgentNames : aCur[a] # t
        /\ dpc = "loop"
        /\ tasks[u].Status = TaskStatusAssigned
        /\ TimesQueued(taskQueues, u) = 1

=============================================================================
